---- MODULE Spec2Model ----
(***************************************************************************)
(* A model of the parallel testify suite (package suite, suite/suite.go):  *)
(* suite.Run[T, G], Suite.Run (sub-tests), the recovery boundary           *)
(* recoverAndFailOnPanic / failOnPanic, methodFilter, and the statistics   *)
(* collector, run on top of the parts of the Go testing engine the suite   *)
(* consumes: T.Run (in either mode of -failfast), T.Parallel, T.Cleanup,    *)
(* T.Fail / T.FailNow / T.SkipNow.                                         *)
(*                                                                         *)
(* A node is a *testing.T together with the Suite instance attached to it. *)
(* Nodes are named by their path in the tree: << >> is the suite node (the *)
(* testing.T handed to Run), <<i>> the i-th test of the run set, <<i, j>>  *)
(* the j-th sub-test started in the body of test i, and so on.             *)
(***************************************************************************)
EXTENDS Integers, Sequences, FiniteSets, TLC

VARIABLES
    has,        \* the lifecycle capabilities the suite type implements
    decl,       \* the methods of the suite type, as its source declares them
    include,    \* value of the -testify.m flag
    exclude,    \* value of the -testify.x flag
    methods,    \* Run's local `methods`: the run set
    next,       \* index into `tests` of Run's final loop
    pc,         \* position of every node's goroutine; DOMAIN pc = nodes created
    par,        \* nodes that called Parallel()
    cleanups,   \* per node, the functions registered with T.Cleanup, in order
    failed,     \* nodes whose testing.T has the failure flag set
    skipped,    \* nodes whose testing.T was skipped
    calls,      \* per node, the hooks and bodies invoked on it, in order
    dirs,       \* directories held by the replay of the SetupTearDownTracker log
    orderOK,    \* that replay has met no Mkdir or Remove error
    stats,      \* Run's local `stats` (*SuiteInformation)
    delivered,  \* the statistics handed to HandleStats, one entry per call
    faults,     \* abnormal outcomes injected so far
    faultAt,    \* << node, hook, outcome >> of every abnormal outcome
    warned,     \* "warning: no tests to run" was logged
    exited,     \* os.Exit(1) was called
    escaped,    \* a panic left every recovery boundary and reached the engine
    ctx,        \* per node, its Suite struct: testingT, suite, g, parent
    gheap,      \* the G objects (global data) allocated, by address
    theap,      \* the T objects (user suite instances) allocated, by address
    reads,      \* per node, the data its hooks and body have read
    lastSet,    \* the last call of a setter of the Suite struct and its outcome
    failFast,   \* the engine's -test.failfast flag
    embeds,     \* the suite type has the field `Suite` that setField sets
    illShaped,  \* the methods of the suite type that take more than the receiver
    numFailed,  \* the engine's count of failed tests, read by T.Run
    callOrder,  \* the package variable callOrder of the fail-fast example suite
    errorf      \* the nodes failOnPanic reported "test panicked" on, one per report

vars == << has, decl, include, exclude, methods, next, pc, par, cleanups, failed,
           skipped, calls, dirs, orderOK, stats, delivered, faults, faultAt,
           warned, exited, escaped, ctx, gheap, theap, reads, lastSet,
           failFast, embeds, illShaped, numFailed, callOrder, errorf >>

-----------------------------------------------------------------------------
(* Bounds of the model *)

\* sub-test nodes created in one suite run without abnormal outcome, over
\* all tests and all depths
MaxSubTests == 3
\* abnormal outcomes (panic, failed assertion, FailNow, skip) in one suite run
MaxFaults == 1
\* sub-test nodes created in one suite run with an abnormal outcome
MaxFaultySubTests == 1

-----------------------------------------------------------------------------
(* Method names and filter patterns *)

TestPrefix == << "T", "e", "s", "t" >>

NonTestMethod == << "N", "o", "n" >> \o TestPrefix \o << "M", "e", "t", "h", "o", "d" >>
TestA1 == TestPrefix \o << "A", "1" >>
TestA2Skip == TestPrefix \o << "A", "2", "S", "k", "i", "p" >>
TestB1 == TestPrefix \o << "B", "1" >>

\* A pattern of the subset  ^?literal$?  of the regexp syntax; src = "" is
\* the unset flag, valid = FALSE a pattern regexp.Compile rejects.
Pattern(src, valid, bol, lit, eol) ==
    [src |-> src, valid |-> valid, bol |-> bol, lit |-> lit, eol |-> eol]
NoPattern == Pattern("", TRUE, FALSE, << >>, FALSE)
PatTest == Pattern("^Test", TRUE, TRUE, TestPrefix, FALSE)
PatTestA == Pattern("^TestA", TRUE, TRUE, TestPrefix \o << "A" >>, FALSE)
PatTestB == Pattern("^TestB", TRUE, TRUE, TestPrefix \o << "B" >>, FALSE)
PatSkipEnd == Pattern("Skip$", TRUE, FALSE, << "S", "k", "i", "p" >>, TRUE)
PatInvalid == Pattern("(", FALSE, FALSE, << >>, FALSE)
PatTestAny == Pattern("Test", TRUE, FALSE, TestPrefix, FALSE)

\* regexp.MatchString(pattern, s): (matched, err)
MatchString(p, s) ==
    IF ~p.valid
    THEN [matched |-> FALSE, err |-> TRUE]
    ELSE [matched |->
            \E i \in 1..(Len(s) + 1) :
                /\ i + Len(p.lit) - 1 <= Len(s)
                /\ \A k \in 1..Len(p.lit) : s[i + k - 1] = p.lit[k]
                /\ (p.bol => i = 1)
                /\ (p.eol => i + Len(p.lit) - 1 = Len(s)),
          err |-> FALSE]

\* methodFilter with -testify.x keeping the names that match
methodFilter_ExcludeKeeps(name, inc, exc) ==
    IF ~MatchString(PatTest, name).matched
    THEN [ok |-> FALSE, err |-> FALSE]
    ELSE IF inc.src # ""
    THEN [ok |-> MatchString(inc, name).matched, err |-> MatchString(inc, name).err]
    ELSE IF exc.src # ""
    THEN [ok |-> MatchString(exc, name).matched, err |-> MatchString(exc, name).err]
    ELSE [ok |-> TRUE, err |-> FALSE]

\* methodFilter without the "^Test" check
methodFilter_NoPrefix(name, inc, exc) ==
    IF inc.src # ""
    THEN [ok |-> MatchString(inc, name).matched, err |-> MatchString(inc, name).err]
    ELSE IF exc.src # ""
    THEN [ok |-> ~MatchString(exc, name).matched, err |-> MatchString(exc, name).err]
    ELSE [ok |-> TRUE, err |-> FALSE]

\* methodFilter(name): (ok, err)
methodFilter(name, inc, exc) ==
    IF ~MatchString(PatTest, name).matched
    THEN [ok |-> FALSE, err |-> FALSE]
    ELSE IF inc.src # ""
    THEN [ok |-> MatchString(inc, name).matched, err |-> MatchString(inc, name).err]
    ELSE IF exc.src # ""
    THEN [ok |-> ~MatchString(exc, name).matched, err |-> MatchString(exc, name).err]
    ELSE [ok |-> TRUE, err |-> FALSE]

\* The characters of the method names, in the order of their codes.
Alphabet ==
    << "1", "2", "A", "B", "M", "N", "S", "T", "d", "e", "h", "i", "k", "n", "o", "p",
       "s", "t" >>
Ord(c) == CHOOSE i \in 1..Len(Alphabet) : Alphabet[i] = c
\* a sorts before b as a string
RECURSIVE LexLess(_, _)
LexLess(a, b) ==
    IF a = << >> THEN b # << >>
    ELSE IF b = << >> THEN FALSE
    ELSE IF Head(a) = Head(b) THEN LexLess(Tail(a), Tail(b))
    ELSE Ord(Head(a)) < Ord(Head(b))

\* the methods enumerated in the order the source declares them
methodFinder_Declared(d) == d

\* reflect.TypeOf(suite): Method(i) for i < NumMethod(), the methods of the
\* type sorted by name, whatever the order the source declares them in (d).
methodFinder(d) == SortSeq(d, LexLess)

\* The loop of Run over methodFinder.Method(i): the names kept, in order.
RECURSIVE SelectMethods(_, _, _)
SelectMethods(ms, inc, exc) ==
    IF ms = << >> THEN << >>
    ELSE IF methodFilter(Head(ms), inc, exc).ok
         THEN << Head(ms) >> \o SelectMethods(Tail(ms), inc, exc)
         ELSE SelectMethods(Tail(ms), inc, exc)

\* The same loop reaches os.Exit(1) iff some method's filter returns an error.
FilterError(ms, inc, exc) ==
    \E i \in 1..Len(ms) : methodFilter(ms[i], inc, exc).err

-----------------------------------------------------------------------------
(* The suites and flag settings the runs start from *)

AllHooks == { "SetupSuite", "TearDownSuite", "SetupTest", "TearDownTest",
              "BeforeTest", "AfterTest", "SetupSubTest", "TearDownSubTest",
              "HandleStats" }
SetupHooks == { "SetupSuite", "SetupTest", "SetupSubTest" }
TearDownHooks == { "TearDownSuite", "TearDownTest", "TearDownSubTest" }

\* Capability sets of the suite types the runs are checked for.
Capabilities ==
    { AllHooks,
      {},
      AllHooks \ { "HandleStats" },
      TearDownHooks \cup { "AfterTest" },
      { "HandleStats" } }

\* the methods two suite types declare
FullSuite == << NonTestMethod, TestA1, TestA2Skip >>
NoTestSuite == << NonTestMethod >>

Config(d, inc, exc) == [decl |-> d, include |-> inc, exclude |-> exc]
Configs ==
    { Config(FullSuite, NoPattern, NoPattern),
      Config(FullSuite, NoPattern, PatSkipEnd),
      Config(FullSuite, PatTestB, NoPattern),
      Config(NoTestSuite, NoPattern, NoPattern),
      Config(FullSuite, PatInvalid, NoPattern) }

-----------------------------------------------------------------------------
(* Nodes *)

Root == << >>
Nodes == DOMAIN pc
Parent(n) == SubSeq(n, 1, Len(n) - 1)
Children(n) == { m \in Nodes : m # Root /\ Parent(m) = n }
IsTest(n) == Len(n) = 1
IsSubTest(n) == Len(n) >= 2
\* n and every node above it
Ancestors(n) == { SubSeq(n, 1, k) : k \in 0..Len(n) }
\* m lies in the subtree of n (n included)
InSubtree(m, n) == Len(m) >= Len(n) /\ SubSeq(m, 1, Len(n)) = n
SubTests == { n \in Nodes : IsSubTest(n) }
\* method.Name of a test node
TestName(n) == methods[n[1]]

\* the process runs: no os.Exit and no panic that reached the engine
Alive == ~escaped /\ ~exited

-----------------------------------------------------------------------------
(* Context nodes: the Suite struct attached to a node, and what it points to *)

\* A pointer: the object of the given kind allocated in the construction of
\* node n ("t": the node's *testing.T, "G": new(G), "T": new(T)), or nil.
Addr(kind, n) == [kind |-> kind, at |-> n]
Nil == Addr("nil", << >>)

\* &Suite[T, G]{}
ZeroSuite == [testingT |-> Nil, suite |-> Nil, g |-> Nil, parent |-> Nil]

\* setT that stores the handle whatever the struct holds
setT_Overwrite(s, testingT) == [s |-> [s EXCEPT !.testingT = testingT], panic |-> FALSE]

\* The setters: the struct after the call, and whether the call panicked.
setT(s, testingT) ==
    IF s.testingT # Nil
    THEN [s |-> s, panic |-> TRUE]
    ELSE [s |-> [s EXCEPT !.testingT = testingT], panic |-> FALSE]
setG(s, g) ==
    IF s.g # Nil
    THEN [s |-> s, panic |-> TRUE]
    ELSE [s |-> [s EXCEPT !.g = g], panic |-> FALSE]
setS(s, suite) ==
    IF s.suite # Nil
    THEN [s |-> s, panic |-> TRUE]
    ELSE [s |-> [s EXCEPT !.suite = suite], panic |-> FALSE]
setP(s, suite) ==
    IF s.parent # Nil
    THEN [s |-> s, panic |-> TRUE]
    ELSE [s |-> [s EXCEPT !.parent = suite], panic |-> FALSE]

\* the four calls every construction makes on its new struct
Construct(testingT, g, suite, parent) ==
    setP(setS(setG(setT(ZeroSuite, testingT).s, g).s, suite).s, parent).s

\* every node given the instance of the suite node
NewInstance_Shared(n) == Addr("T", Root)

\* a node that goes on with the instance of the node above it
NewInstance_Inherited(n) == Addr("T", Parent(n))

\* new(T) in the construction of node n
NewInstance(n) == Addr("T", n)

\* Run: s, with new(G), new(T) and no parent
RootSuite == Construct(Addr("t", Root), Addr("G", Root), NewInstance(Root), Nil)

\* a new(G) for every test
TestG_Fresh == Addr("G", << next >>)

\* F: newS.setG(s.G())
TestG == ctx[Root].g

\* F without a parent
TestParent_Nil == Nil

\* F: newS.setP(s.suite)
TestParent == ctx[Root].suite

\* F: newS for the test node n
TestSuite(n) == Construct(Addr("t", n), TestG, NewInstance(n), TestParent)

\* a new(G) for every sub-test
SubTestG_Fresh(n) == Addr("G", n)

\* Suite.Run on the Suite of node n: newS.setG(s.G())
SubTestG(n) == ctx[n].g

\* the parent of every sub-test set to the suite node's instance
SubTestParent_Root(n) == ctx[Root].suite

\* Suite.Run on the Suite of node n: newS.setP(s.suite)
SubTestParent(n) == ctx[n].suite

\* Suite.Run on the Suite of node n: newS for the sub-test node c
SubTestSuite(n, c) == Construct(Addr("t", c), SubTestG(n), NewInstance(c), SubTestParent(n))

\* The objects as new() returns them, and the values the setup hooks write:
\* GlobalData in SetupSuite, and PerTestData of the node's own instance in
\* the setup hook of every level (as SetupTest and SetupSubTest of the example
\* suite do).
ZeroG == [GlobalData |-> ""]
ZeroT == [PerTestData |-> << >>]
WrittenG == [GlobalData |-> "[G]"]
WrittenT(n) ==
    [PerTestData |-> IF n = Root THEN << "[", n, "]" >>
                     ELSE IF IsTest(n) THEN << "{", n, "}" >>
                     ELSE << "(", n, ")" >>]
\* s.G().GlobalData and s.PerTestData read through pointer a
GlobalDataOf(h, a) == IF a \in DOMAIN h THEN h[a].GlobalData ELSE ZeroG.GlobalData
PerTestDataOf(h, a) == IF a \in DOMAIN h THEN h[a].PerTestData ELSE ZeroT.PerTestData
\* no setter call so far
NoCall == [op |-> "none", arg |-> Nil, panic |-> FALSE]

-----------------------------------------------------------------------------
(* Statistics collector (stats.go: SuiteInformation) *)

\* time.Time: the zero value, or a value time.Now() returned
ZeroTime == "zero"
TimeNow == "now"

NilStats == [on |-> FALSE, Start |-> ZeroTime, End |-> ZeroTime, TestStats |-> << >>]
newSuiteInformation ==
    [on |-> TRUE, Start |-> ZeroTime, End |-> ZeroTime, TestStats |-> << >>]
TestInformation(startTime, endTime, passed) ==
    [Start |-> startTime, End |-> endTime, Passed |-> passed]
\* SuiteInformation.start(testName)
start(s, testName) ==
    [s EXCEPT !.TestStats = (testName :> TestInformation(TimeNow, ZeroTime, FALSE)) @@ @]
\* SuiteInformation.end(testName, passed)
end(s, testName, passed) ==
    [s EXCEPT !.TestStats[testName].End = TimeNow,
              !.TestStats[testName].Passed = passed]
\* SuiteInformation.Passed()
Passed(s) == \A name \in DOMAIN s.TestStats : s.TestStats[name].Passed

-----------------------------------------------------------------------------
(* Recovery boundary *)

\* testing.T.Fail: the flag is set on the node and on every node above it.
Fail(n) == failed \cup Ancestors(n)

\* Only the three functions recover; the cleanup closures do not.
HasRecover_FunctionsOnly(frame) == frame \in { "Run", "F", "SuiteRun" }

\* The frames that open with `defer recoverAndFailOnPanic(s)`: Run, the test
\* function F, the sub-test function of Suite.Run, and the cleanup closures.
\* The statistics closure `stats.end(...)` has none.
HasRecover(frame) ==
    frame \in { "Run", "F", "SuiteRun", "HandleStats", "TearDownSuite",
                "TearDownTest", "AfterTest", "TearDownSubTest" }

\* failOnPanic(s, r): Errorf and FailNow when r is not nil
failOnPanic(n, r) == IF r # "nil" THEN Fail(n) ELSE failed

\* a boundary that takes every way of leaving the frame early for a panic
recoverAndFailOnPanic_AnyExit(n, out) ==
    failOnPanic(n, IF out # "ok" THEN "panic" ELSE "nil")

\* recoverAndFailOnPanic(s), run as the frame is left with outcome `out`
recoverAndFailOnPanic(n, out) ==
    failOnPanic(n, IF out = "panic" THEN "panic" ELSE "nil")

\* a report written for every way of leaving the frame early
panicReport_AnyExit(n, out) == IF out # "ok" THEN Append(errorf, n) ELSE errorf

\* the report failOnPanic writes: s.T().Errorf("test panicked: ...")
panicReport(n, out) == IF out = "panic" THEN Append(errorf, n) ELSE errorf

\* The engine counts a failed node when it reads T.Failed(): as the function
\* of a node that started sub-tests finishes (flag f), or once the cleanups
\* of a node that started none have run.
tRunnerReturn(n, f) ==
    IF Children(n) # {} /\ n \in f THEN numFailed + 1 ELSE numFailed

\* an engine that stops after a failure whatever the flag
shouldFailFast_AnyMode == numFailed > 0

\* an engine without the fail-fast mode
shouldFailFast_Never == FALSE

\* the engine in fail-fast mode after a failure: T.Run returns at once
shouldFailFast == failFast /\ numFailed > 0

\* The hooks and the test methods of the example suite FailfastSuite log
\* their name first: s.call(method) appends it to callOrder.
FailfastHooks == { "SetupSuite", "TearDownSuite", "SetupTest", "TearDownTest" }
IsFailfastSuite == has = FailfastHooks
call(entries) ==
    callOrder' = IF IsFailfastSuite THEN callOrder \o entries ELSE callOrder
\* the log of hook h of node n, if the suite has the hook
callHook(n, h) == call(IF h \in has THEN << << n, h >> >> ELSE << >>)

\* The bounds leave room for one more abnormal outcome, for one more sub-test.
CanFault == faults < MaxFaults /\ Cardinality(SubTests) <= MaxFaultySubTests
CanRunSubTest ==
    Cardinality(SubTests) < (IF faults = 0 THEN MaxSubTests ELSE MaxFaultySubTests)

\* Outcomes a hook may end with.
HookOutcomes == IF CanFault THEN { "ok", "panic" } ELSE { "ok" }
\* Outcomes a test or sub-test body may end with.
BodyOutcomes == IF CanFault THEN { "ok", "panic", "failnow", "skip" } ELSE { "ok" }

\* The example suite's TearDownSuite replays the tracker log on the file
\* system: ">name" is os.Mkdir(name), "<name" is os.Remove(name).
MkdirOK(n) == n \notin dirs /\ (n = Root \/ Parent(n) \in dirs)
RemoveOK(n) == n \in dirs /\ ~\E m \in dirs : m # Root /\ Parent(m) = n

\* The setup and teardown hooks of the example suite append ">name" and
\* "<name" to the tracker log as their last statement.
Track(n, h, out) ==
    IF out = "ok" /\ h \in SetupHooks /\ orderOK
    THEN /\ orderOK' = MkdirOK(n)
         /\ dirs' = IF MkdirOK(n) THEN dirs \cup { n } ELSE dirs
    ELSE IF out = "ok" /\ h \in TearDownHooks /\ orderOK
    THEN /\ orderOK' = RemoveOK(n)
         /\ dirs' = IF RemoveOK(n) THEN dirs \ { n } ELSE dirs
    ELSE UNCHANGED << dirs, orderOK >>

\* a T.Run that returns as soon as the new node is created
Blocked_Never(p) == IF p = Root THEN "loop" ELSE "body"

\* testingT.Run(name, f): the calling node p does not go on until the new
\* node signals (it is complete or has called Parallel())
Blocked(p) == "wait"

\* The hook or body h runs on node n and ends with `out`.
Invoke(n, h, out) ==
    /\ calls' = [calls EXCEPT ![n] = Append(@, h)]
    /\ Track(n, h, out)
    /\ faults' = IF out = "ok" THEN faults ELSE faults + 1
    /\ faultAt' = IF out = "ok" THEN faultAt ELSE faultAt \cup { << n, h, out >> }
    /\ gheap' = IF out = "ok" /\ h = "SetupSuite"
                THEN (ctx[n].g :> WrittenG) @@ gheap
                ELSE gheap
    /\ theap' = IF out = "ok" /\ h \in SetupHooks
                THEN (ctx[n].suite :> WrittenT(n)) @@ theap
                ELSE theap
    /\ reads' = [reads EXCEPT ![n] = @ \cup
                    { [GlobalData |-> GlobalDataOf(gheap', ctx[n].g),
                       PerTestData |-> PerTestDataOf(theap', ctx[n].suite)] }]

NoInvoke == UNCHANGED << calls, dirs, orderOK, faults, faultAt, gheap, theap, reads >>

\* an engine that never lets the children waiting in Parallel() go on
Finished_KeepParked(n) == [pc EXCEPT ![n] = "waitsubs"]

\* tRunner, as the function of node n finishes (by return or by Goexit): the
\* barrier is closed, so the children waiting in Parallel() go on, and the
\* node waits for its sub-tests.
Finished(n) ==
    [m \in Nodes |->
        IF m = n THEN "waitsubs"
        ELSE IF m # Root /\ Parent(m) = n /\ pc[m] = "parked" THEN "body"
        ELSE pc[m]]

\* Control leaves a call made in `frame` of node n: on "ok" the frame goes on
\* at okpc ("ret": the function returns); a panic unwinds the frame, whose
\* deferred recoverAndFailOnPanic (if any) marks the node failed and ends the
\* goroutine with FailNow.
Unwind(n, frame, out, okpc) ==
    IF out = "ok"
    THEN /\ pc' = IF okpc = "ret" THEN Finished(n) ELSE [pc EXCEPT ![n] = okpc]
         /\ numFailed' = IF okpc = "ret" THEN tRunnerReturn(n, failed) ELSE numFailed
         /\ UNCHANGED << failed, escaped, errorf >>
    ELSE IF HasRecover(frame)
    THEN /\ failed' = recoverAndFailOnPanic(n, out)
         /\ errorf' = panicReport(n, out)
         /\ pc' = Finished(n)
         /\ numFailed' = tRunnerReturn(n, failed')
         /\ UNCHANGED escaped
    ELSE /\ escaped' = TRUE
         /\ UNCHANGED << pc, failed, errorf, numFailed >>

-----------------------------------------------------------------------------
Init ==
    /\ has \in Capabilities
    /\ \E c \in Configs :
         /\ decl = c.decl
         /\ include = c.include
         /\ exclude = c.exclude
    /\ methods = << >>
    /\ next = 1
    /\ pc = (Root :> "begin")
    /\ par = {}
    /\ cleanups = (Root :> << >>)
    /\ failed = {}
    /\ skipped = {}
    /\ calls = (Root :> << >>)
    /\ dirs = {}
    /\ orderOK = TRUE
    /\ stats = NilStats
    /\ delivered = << >>
    /\ faults = 0
    /\ faultAt = {}
    /\ warned = FALSE
    /\ exited = FALSE
    /\ escaped = FALSE
    /\ ctx = (Root :> RootSuite)
    /\ gheap = (RootSuite.g :> ZeroG)
    /\ theap = (RootSuite.suite :> ZeroT)
    /\ reads = (Root :> {})
    /\ lastSet = NoCall
    /\ failFast = FALSE
    /\ embeds = TRUE
    /\ illShaped = {}
    /\ numFailed = 0
    /\ callOrder = << >>
    /\ errorf = << >>

-----------------------------------------------------------------------------
(* Run[T, G](testingT), the suite node *)

\* the two suite-level cleanups registered the other way round
RunCleanups_TearDownFirst ==
    (IF "TearDownSuite" \in has THEN << "TearDownSuite" >> ELSE << >>)
    \o (IF "HandleStats" \in has THEN << "HandleStats" >> ELSE << >>)

\* Run with the TearDownSuite cleanup left to a point after SetupSuite
RunCleanups_StatsOnly ==
    IF "HandleStats" \in has THEN << "HandleStats" >> ELSE << >>

\* The cleanups Run registers before it calls SetupSuite.
RunCleanups ==
    (IF "HandleStats" \in has THEN << "HandleStats" >> ELSE << >>)
    \o (IF "TearDownSuite" \in has THEN << "TearDownSuite" >> ELSE << >>)

\* A struct field as reflection sees it: its type, and whether it is exported
\* (CanSet, the struct being reached through a pointer).
Field(type, exported) == [type |-> type, exported |-> exported]

\* Struct types of the repository: TestStruct, a suite type that embeds
\* *suite.Suite, one that does not, and a struct with unexported fields.
TestStruct == ("Field1" :> Field("string", TRUE)) @@ ("Field2" :> Field("int", TRUE))
ParallelSuite == ("Suite" :> Field("*Suite", TRUE)) @@ ("PerTestData" :> Field("string", TRUE))
PlainSuite == ("PerTestData" :> Field("string", TRUE))
StdoutCapture == ("oldStdout" :> Field("*File", FALSE)) @@ ("readPipe" :> Field("*File", FALSE))

\* reflect.ValueOf(v): the dynamic type and the value; for a nil interface
\* the zero Value, which has no type
Value(type, v) == [type |-> type, v |-> v]
NilValue == Value("invalid", Nil)
\* the zero value of a type
ZeroOf(type) ==
    IF type = "string" THEN Value(type, "")
    ELSE IF type = "int" THEN Value(type, 0)
    ELSE Value(type, Nil)
\* &S{} for the struct type S
New(S) == [type |-> S, fields |-> [f \in DOMAIN S |-> ZeroOf(S[f].type)]]

\* Type.AssignableTo for the types above, none of which is an interface
\* type: the types are identical
AssignableTo(vt, ft) == vt = ft

\* the nil error
NoError == << >>

\* a setField that finds the field in every suite type
setField_Found(input, fieldName, value) ==
    [input |-> input, err |-> NoError, panic |-> FALSE]

\* setField(input, fieldName, value): the struct behind input after the call,
\* the error returned (its text in pieces), and whether the call panicked
\* (Value.Type of the zero Value).
setField(input, fieldName, value) ==
    IF fieldName \notin DOMAIN input.type
    THEN [input |-> input,
          err |-> << "field ", fieldName, " does not exist" >>,
          panic |-> FALSE]
    ELSE IF ~input.type[fieldName].exported
    THEN [input |-> input,
          err |-> << "field ", fieldName, " cannot be set" >>,
          panic |-> FALSE]
    ELSE IF value = NilValue
    THEN [input |-> input, err |-> NoError, panic |-> TRUE]
    ELSE IF ~AssignableTo(value.type, input.type[fieldName].type)
    THEN [input |-> input,
          err |-> << "value of type ", value.type, " is not assignable to field ",
                     fieldName, " of type ", input.type[fieldName].type >>,
          panic |-> FALSE]
    ELSE [input |-> [input EXCEPT !.fields[fieldName] = value],
          err |-> NoError,
          panic |-> FALSE]

\* new(T) of a suite type that has, or lacks, the embedded *suite.Suite
NewSuiteStruct(hasField) == New(IF hasField THEN ParallelSuite ELSE PlainSuite)

\* Run without the return on an empty run set
NoTests_Never(ms) == FALSE

\* len(methods) == 0
NoTests(ms) == Len(ms) = 0

\* Run up to the call of SetupSuite: the run set, the return on an empty run
\* set, the statistics and the suite-level cleanups.
RunBegin ==
    /\ Alive
    /\ pc[Root] = "begin"
    /\ IF setField(NewSuiteStruct(embeds), "Suite", Value("*Suite", Addr("S", Root))).err # NoError
       THEN \* panic("make sure that your test suite embeds *suite.Suite")
            /\ Unwind(Root, "Run", "panic", "ret")
            /\ UNCHANGED << methods, warned, exited, stats, cleanups >>
       ELSE IF FilterError(methodFinder(decl), include, exclude)
       THEN /\ exited' = TRUE
            /\ UNCHANGED << methods, warned, pc, stats, cleanups, failed, escaped,
                            errorf, numFailed >>
       ELSE /\ methods' = SelectMethods(methodFinder(decl), include, exclude)
            /\ UNCHANGED << exited, failed, escaped, errorf >>
            /\ IF NoTests(methods')
               THEN /\ warned' = TRUE
                    /\ pc' = Finished(Root)
                    /\ numFailed' = tRunnerReturn(Root, failed)
                    /\ UNCHANGED << stats, cleanups >>
               ELSE /\ UNCHANGED << warned, numFailed >>
                    /\ pc' = [pc EXCEPT ![Root] = "setupSuite"]
                    /\ stats' = IF "HandleStats" \in has
                                THEN [newSuiteInformation EXCEPT !.Start = TimeNow]
                                ELSE stats
                    /\ cleanups' = [cleanups EXCEPT ![Root] = RunCleanups]
    /\ UNCHANGED << ctx, gheap, theap, reads, lastSet,
                    has, decl, include, exclude, next, par, skipped, calls,
                    dirs, orderOK, delivered, faults, faultAt,
                    failFast, embeds, illShaped, callOrder >>

\* SetupSuite, if the suite has it
RunSetupSuite ==
    /\ Alive
    /\ pc[Root] = "setupSuite"
    /\ \E out \in (IF "SetupSuite" \in has THEN HookOutcomes ELSE { "ok" }) :
         /\ IF "SetupSuite" \in has THEN Invoke(Root, "SetupSuite", out) ELSE NoInvoke
         /\ Unwind(Root, "Run", out, "loop")
    /\ callHook(Root, "SetupSuite")
    /\ UNCHANGED << ctx, lastSet, has, decl, include, exclude, methods, next, par, cleanups, skipped,
                    stats, delivered, warned, exited, failFast, embeds, illShaped >>

\* testingT.Run(test.Name, test.F): the engine creates the test node, whose
\* function F starts by building its Suite (newS, newSuite and the four
\* setters), and Run waits until it is complete or has called Parallel().
RunTest ==
    /\ Alive
    /\ pc[Root] = "loop"
    /\ next <= Len(methods)
    /\ IF shouldFailFast
       THEN \* T.Run returns without running the test
            UNCHANGED << pc, cleanups, calls, ctx, theap, reads >>
       ELSE /\ pc' = (<< next >> :> "begin") @@ [pc EXCEPT ![Root] = Blocked(Root)]
            /\ cleanups' = (<< next >> :> << >>) @@ cleanups
            /\ calls' = (<< next >> :> << >>) @@ calls
            /\ ctx' = (<< next >> :> TestSuite(<< next >>)) @@ ctx
            /\ theap' = (TestSuite(<< next >>).suite :> ZeroT) @@ theap
            /\ reads' = (<< next >> :> {}) @@ reads
    /\ next' = next + 1
    /\ UNCHANGED << gheap, lastSet, has, decl, include, exclude, methods, par, failed, skipped, dirs,
                    orderOK, stats, delivered, faults, faultAt, warned, exited,
                    escaped, failFast, embeds, illShaped, numFailed, callOrder,
                    errorf >>

\* Run returns after the last test of the loop
RunReturn ==
    /\ Alive
    /\ pc[Root] = "loop"
    /\ next > Len(methods)
    /\ pc' = Finished(Root)
    /\ numFailed' = tRunnerReturn(Root, failed)
    /\ UNCHANGED << ctx, gheap, theap, reads, lastSet,
                    has, decl, include, exclude, methods, next, par, cleanups, failed,
                    skipped, calls, dirs, orderOK, stats, delivered, faults, faultAt,
                    warned, exited, escaped, failFast, embeds, illShaped, callOrder,
                    errorf >>

-----------------------------------------------------------------------------
(* The test function F that Run builds for every method of the run set *)

\* the statistics cleanup registered after the TearDownTest cleanup: it would
\* run before TearDownTest
TestCleanups_StatsLast ==
    (IF "TearDownTest" \in has THEN << "TearDownTest" >> ELSE << >>)
    \o (IF stats.on THEN << "statsEnd" >> ELSE << >>)

\* F with the TearDownTest cleanup left to a point after SetupTest.
TestCleanups_StatsOnly == IF stats.on THEN << "statsEnd" >> ELSE << >>

\* F with the AfterTest cleanup registered before SetupTest as well
TestCleanups_WithAfterTest ==
    (IF stats.on THEN << "statsEnd" >> ELSE << >>)
    \o (IF "TearDownTest" \in has THEN << "TearDownTest" >> ELSE << >>)
    \o (IF "AfterTest" \in has THEN << "AfterTest" >> ELSE << >>)

\* The cleanups F registers before it calls SetupTest.
TestCleanups ==
    (IF stats.on THEN << "statsEnd" >> ELSE << >>)
    \o (IF "TearDownTest" \in has THEN << "TearDownTest" >> ELSE << >>)

\* F up to the call of SetupTest: the statistics cleanup and start, and the
\* TearDownTest cleanup.
TestBegin(n) ==
    /\ Alive
    /\ IsTest(n)
    /\ pc[n] = "begin"
    /\ pc' = [pc EXCEPT ![n] = "setupTest"]
    /\ stats' = IF stats.on THEN start(stats, TestName(n)) ELSE stats
    /\ cleanups' = [cleanups EXCEPT ![n] = TestCleanups]
    /\ UNCHANGED << ctx, gheap, theap, reads, lastSet,
                    has, decl, include, exclude, methods, next, par, failed, skipped,
                    calls, dirs, orderOK, delivered, faults, faultAt, warned, exited,
                    escaped, failFast, embeds, illShaped, numFailed, callOrder,
                    errorf >>

\* The AfterTest cleanup registered ahead of the others: it would run last.
AfterSetupTest_Prepend(cl) ==
    IF "AfterTest" \in has THEN << "AfterTest" >> \o cl ELSE cl

\* AfterTest called in line after the method: nothing is registered.
AfterSetupTest_Inline(cl) == cl

\* what F registers once SetupTest has returned
AfterSetupTest(cl) == IF "AfterTest" \in has THEN Append(cl, "AfterTest") ELSE cl

\* SetupTest, if the suite has it, then the AfterTest cleanup
TestSetupTest(n) ==
    /\ Alive
    /\ IsTest(n)
    /\ pc[n] = "setupTest"
    /\ \E out \in (IF "SetupTest" \in has THEN HookOutcomes ELSE { "ok" }) :
         /\ IF "SetupTest" \in has THEN Invoke(n, "SetupTest", out) ELSE NoInvoke
         /\ Unwind(n, "F", out, "beforeTest")
         /\ cleanups' = [cleanups EXCEPT ![n] = IF out = "ok" THEN AfterSetupTest(@) ELSE @]
    /\ callHook(n, "SetupTest")
    /\ UNCHANGED << ctx, lastSet, has, decl, include, exclude, methods, next, par, skipped, stats,
                    delivered, warned, exited, failFast, embeds, illShaped >>

\* a method that takes only its receiver is called whatever its shape
Call_AnyShape(name) == "ok"

\* method.Func.Call([]reflect.Value{reflect.ValueOf(newSuite)}): reflect
\* panics when the method takes more inputs than the receiver it is given.
Call(name) == IF name \in illShaped THEN "panic" ELSE "ok"

\* BeforeTest, if the suite has it, then the call of the method, whose first
\* statement is its log
TestBeforeTest(n) ==
    /\ Alive
    /\ IsTest(n)
    /\ pc[n] = "beforeTest"
    /\ \E out \in (IF "BeforeTest" \in has THEN HookOutcomes ELSE { "ok" }) :
         LET entered == IF out = "ok" THEN Call(TestName(n)) ELSE out IN
         /\ IF "BeforeTest" \in has THEN Invoke(n, "BeforeTest", out) ELSE NoInvoke
         /\ Unwind(n, "F", entered, "body")
         /\ call((IF "BeforeTest" \in has THEN << << n, "BeforeTest" >> >> ELSE << >>)
                 \o (IF entered = "ok" THEN << << n, "Body" >> >> ELSE << >>))
    /\ UNCHANGED << ctx, lastSet, has, decl, include, exclude, methods, next, par, cleanups, skipped,
                    stats, delivered, warned, exited, failFast, embeds, illShaped >>

-----------------------------------------------------------------------------
(* Suite.Run(name, subtest): the function run as a sub-test *)

\* a sub-test function that registers the test-level teardown
SubTestCleanups_TearDownTest ==
    IF "TearDownTest" \in has THEN << "TearDownTest" >> ELSE << >>

\* The cleanups the sub-test function registers before it calls SetupSubTest.
SubTestCleanups ==
    IF "TearDownSubTest" \in has THEN << "TearDownSubTest" >> ELSE << >>

\* The sub-test function up to the call of subtest(newSuite): the
\* TearDownSubTest cleanup, then SetupSubTest, if the suite has it.
SubTestSetup(n) ==
    /\ Alive
    /\ IsSubTest(n)
    /\ pc[n] = "begin"
    /\ cleanups' = [cleanups EXCEPT ![n] = SubTestCleanups]
    /\ \E out \in (IF "SetupSubTest" \in has THEN HookOutcomes ELSE { "ok" }) :
         /\ IF "SetupSubTest" \in has THEN Invoke(n, "SetupSubTest", out) ELSE NoInvoke
         /\ Unwind(n, "SuiteRun", out, "body")
    /\ callHook(n, "SetupSubTest")
    /\ UNCHANGED << ctx, lastSet, has, decl, include, exclude, methods, next, par, skipped, stats,
                    delivered, warned, exited, failFast, embeds, illShaped >>

-----------------------------------------------------------------------------
(* Bodies: the test method, or the function given to Suite.Run *)

Frame(n) == IF IsTest(n) THEN "F" ELSE "SuiteRun"
\* where the caller of T.Run goes on once the child has signalled
Resume(n) == IF n = Root THEN "loop" ELSE "body"

\* a Parallel() after which the node runs on at once
ParallelWait_None(n) == "body"

\* T.Parallel: the node does not go on before the function of the node above
\* it has finished
ParallelWait(n) == "parked"

\* s.Parallel(): the node signals its parent, whose T.Run returns, and waits
\* for the parent's function to finish.
BodyParallel(n) ==
    /\ Alive
    /\ n # Root
    /\ pc[n] = "body"
    /\ n \notin par
    /\ Children(n) = {}
    /\ par' = par \cup { n }
    /\ pc' = [pc EXCEPT ![n] = ParallelWait(n), ![Parent(n)] = Resume(Parent(n))]
    /\ UNCHANGED << ctx, gheap, theap, reads, lastSet,
                    has, decl, include, exclude, methods, next, cleanups, failed,
                    skipped, calls, dirs, orderOK, stats, delivered, faults, faultAt,
                    warned, exited, escaped, failFast, embeds, illShaped, numFailed, callOrder,
                    errorf >>

\* s.Run(name, subtest): T.Run creates the sub-test node, whose function
\* starts by building its Suite (newS, newSuite and the four setters), and
\* waits until it is complete or has called Parallel().
BodyRun(n) ==
    /\ Alive
    /\ n # Root
    /\ pc[n] = "body"
    /\ CanRunSubTest
    /\ ~shouldFailFast
    /\ LET c == Append(n, Cardinality(Children(n)) + 1) IN
         /\ pc' = (c :> "begin") @@ [pc EXCEPT ![n] = Blocked(n)]
         /\ cleanups' = (c :> << >>) @@ cleanups
         /\ calls' = (c :> << >>) @@ calls
         /\ ctx' = (c :> SubTestSuite(n, c)) @@ ctx
         /\ theap' = (SubTestSuite(n, c).suite :> ZeroT) @@ theap
         /\ reads' = (c :> {}) @@ reads
    /\ UNCHANGED << gheap, lastSet, has, decl, include, exclude, methods, next, par, failed, skipped,
                    dirs, orderOK, stats, delivered, faults, faultAt, warned, exited,
                    escaped, failFast, embeds, illShaped, numFailed, callOrder,
                    errorf >>

\* A failed assertion (T.Errorf / T.Fail): the flag is set and the body goes on.
BodyError(n) ==
    /\ Alive
    /\ n # Root
    /\ pc[n] = "body"
    /\ CanFault
    /\ failed' = Fail(n)
    /\ faults' = faults + 1
    /\ faultAt' = faultAt \cup { << n, "Body", "error" >> }
    /\ UNCHANGED << ctx, gheap, theap, reads, lastSet,
                    has, decl, include, exclude, methods, next, pc, par, cleanups,
                    skipped, calls, dirs, orderOK, stats, delivered, warned, exited,
                    escaped, failFast, embeds, illShaped, numFailed, callOrder,
                    errorf >>

\* The body ends: it returns, panics, calls FailNow (Require) or SkipNow.
BodyEnd(n) ==
    /\ Alive
    /\ n # Root
    /\ pc[n] = "body"
    /\ \E out \in BodyOutcomes :
         /\ Invoke(n, "Body", out)
         /\ IF out \in { "ok", "panic" }
            THEN /\ Unwind(n, Frame(n), out, "ret")
                 /\ UNCHANGED skipped
            ELSE \* runtime.Goexit: the deferred recover() returns nil
                 /\ pc' = Finished(n)
                 /\ failed' = (IF out = "failnow" THEN Fail(n) ELSE failed)
                                \cup recoverAndFailOnPanic(n, out)
                 /\ errorf' = panicReport(n, out)
                 /\ skipped' = IF out = "skip" THEN skipped \cup { n } ELSE skipped
                 /\ numFailed' = tRunnerReturn(n, failed')
                 /\ UNCHANGED escaped
    /\ UNCHANGED << ctx, lastSet, has, decl, include, exclude, methods, next, par, cleanups, stats,
                    delivered, warned, exited, failFast, embeds, illShaped, callOrder >>

-----------------------------------------------------------------------------
(* The engine: T.Cleanup and the completion of a node *)

\* A teardown run by a plain `defer`: it does not wait for the sub-tests.
SubTestsDone_Deferred(n) == TRUE

\* the wait T.Cleanup gives: every sub-test of the node is complete
SubTestsDone(n) == \A c \in Children(n) : pc[c] = "done"

\* what a panic in cleanup closure k of node n does
CleanupPanic(n, k, out) ==
    IF out = "ok" \/ HasRecover(k)
    THEN /\ failed' = recoverAndFailOnPanic(n, out)
         /\ errorf' = panicReport(n, out)
         /\ UNCHANGED escaped
    ELSE /\ escaped' = TRUE
         /\ UNCHANGED << failed, errorf >>

\* the outcome read from the suite's T in place of the test's
StatsPassed_Suite(n) == Root \notin failed

\* the outcome the statistics cleanup of test n records: !newS.Failed()
StatsPassed(n) == n \notin failed

\* the cleanup the engine runs next: the one registered last
NextCleanup(cl) == cl[Len(cl)]

\* an engine that drops the cleanups left when one of them ends early
RestCleanups_StopOnPanic(cl, out) ==
    IF out = "ok" THEN SubSeq(cl, 1, Len(cl) - 1) ELSE << >>

\* the cleanups left once the last registered one has run and ended with
\* `out`: a Goexit inside a cleanup (FailNow after a recovered panic) does
\* not stop the others
RestCleanups(cl, out) == SubSeq(cl, 1, Len(cl) - 1)

\* T.Cleanup's contract: once the function and every sub-test of the node are
\* complete, the registered functions run, last registered first; a Goexit
\* inside one does not stop the others.
tRunnerCleanup(n) ==
    /\ Alive
    /\ pc[n] = "waitsubs"
    /\ SubTestsDone(n)
    /\ cleanups[n] # << >>
    /\ LET k == NextCleanup(cleanups[n]) IN
         /\ IF k = "statsEnd"
            THEN /\ stats' = end(stats, TestName(n), StatsPassed(n))
                 /\ cleanups' = [cleanups EXCEPT ![n] = RestCleanups(@, "ok")]
                 /\ NoInvoke
                 /\ UNCHANGED << failed, escaped, delivered, errorf, callOrder >>
            ELSE \E out \in HookOutcomes :
                   /\ Invoke(n, k, out)
                   /\ CleanupPanic(n, k, out)
                   /\ cleanups' = [cleanups EXCEPT ![n] = RestCleanups(@, out)]
                   /\ callHook(n, k)
                   /\ IF k = "HandleStats"
                      THEN /\ stats' = [stats EXCEPT !.End = TimeNow]
                           /\ delivered' = Append(delivered, stats')
                      ELSE UNCHANGED << stats, delivered >>
    /\ UNCHANGED << ctx, lastSet, has, decl, include, exclude, methods, next, pc, par, skipped,
                    warned, exited, failFast, embeds, illShaped, numFailed >>

\* The node is complete: its parent's T.Run returns, unless it returned when
\* the node called Parallel().
tRunnerDone(n) ==
    /\ Alive
    /\ pc[n] = "waitsubs"
    /\ SubTestsDone(n)
    /\ cleanups[n] = << >>
    /\ pc' = IF n = Root \/ n \in par
             THEN [pc EXCEPT ![n] = "done"]
             ELSE [pc EXCEPT ![n] = "done", ![Parent(n)] = Resume(Parent(n))]
    /\ numFailed' = IF Children(n) = {} /\ n \in failed
                     THEN numFailed + 1
                     ELSE numFailed
    /\ UNCHANGED << ctx, gheap, theap, reads, lastSet,
                    has, decl, include, exclude, methods, next, par, cleanups, failed,
                    skipped, calls, dirs, orderOK, stats, delivered, faults, faultAt,
                    warned, exited, escaped, failFast, embeds, illShaped, callOrder,
                    errorf >>

-----------------------------------------------------------------------------
Next ==
    \/ RunBegin
    \/ RunSetupSuite
    \/ RunTest
    \/ RunReturn
    \/ \E n \in Nodes : TestBegin(n)
    \/ \E n \in Nodes : TestSetupTest(n)
    \/ \E n \in Nodes : TestBeforeTest(n)
    \/ \E n \in Nodes : SubTestSetup(n)
    \/ \E n \in Nodes : BodyParallel(n)
    \/ \E n \in Nodes : BodyRun(n)
    \/ \E n \in Nodes : BodyError(n)
    \/ \E n \in Nodes : BodyEnd(n)
    \/ \E n \in Nodes : tRunnerCleanup(n)
    \/ \E n \in Nodes : tRunnerDone(n)

Spec == Init /\ [][Next]_vars

\* The same run under an engine that schedules fairly: as long as some node
\* can take a step, a step is taken. Hooks and bodies are single steps, so
\* each of them terminates.
SpecFair == Init /\ [][Next]_vars /\ WF_vars(Next)

-----------------------------------------------------------------------------
(* Runs over every flag setting: suites with a SetupSuite and a               *)
(* TearDownSuite, whose tests start no sub-test.                              *)

\* the methods of the suite types, in the order their source declares them
Catalogs ==
    { << NonTestMethod, TestA1, TestA2Skip, TestB1 >>,
      << TestB1, TestA2Skip, NonTestMethod, TestA1 >>,
      NoTestSuite,
      << >> }
\* the values of -testify.m and of -testify.x
Patterns ==
    { NoPattern, PatTest, PatTestAny, PatTestA, PatTestB, PatSkipEnd, PatInvalid }

FilterInit ==
    /\ has = { "SetupSuite", "TearDownSuite" }
    /\ decl \in Catalogs
    /\ include \in Patterns
    /\ exclude \in Patterns
    /\ methods = << >>
    /\ next = 1
    /\ pc = (Root :> "begin")
    /\ par = {}
    /\ cleanups = (Root :> << >>)
    /\ failed = {}
    /\ skipped = {}
    /\ calls = (Root :> << >>)
    /\ dirs = {}
    /\ orderOK = TRUE
    /\ stats = NilStats
    /\ delivered = << >>
    /\ faults = 0
    /\ faultAt = {}
    /\ warned = FALSE
    /\ exited = FALSE
    /\ escaped = FALSE
    /\ ctx = (Root :> RootSuite)
    /\ gheap = (RootSuite.g :> ZeroG)
    /\ theap = (RootSuite.suite :> ZeroT)
    /\ reads = (Root :> {})
    /\ lastSet = NoCall
    /\ failFast = FALSE
    /\ embeds = TRUE
    /\ illShaped = {}
    /\ numFailed = 0
    /\ callOrder = << >>
    /\ errorf = << >>

FilterNext ==
    \/ RunBegin
    \/ RunSetupSuite
    \/ RunTest
    \/ RunReturn
    \/ \E n \in Nodes : TestBegin(n)
    \/ \E n \in Nodes : TestSetupTest(n)
    \/ \E n \in Nodes : TestBeforeTest(n)
    \/ \E n \in Nodes : BodyParallel(n)
    \/ \E n \in Nodes : BodyEnd(n)
    \/ \E n \in Nodes : tRunnerCleanup(n)
    \/ \E n \in Nodes : tRunnerDone(n)

SpecFilter == FilterInit /\ [][FilterNext]_vars

-----------------------------------------------------------------------------
(* The setters of the Suite struct, called in any order on one struct *)

\* the pointers the setters are called with
Handles == { Nil, Addr("t", << 1 >>), Addr("t", << 2 >>) }
Globals == { Nil, Addr("G", << 1 >>), Addr("G", << 2 >>) }
Instances == { Nil, Addr("T", << 1 >>), Addr("T", << 2 >>) }

SetterInit ==
    /\ has = {}
    /\ decl = << >>
    /\ include = NoPattern
    /\ exclude = NoPattern
    /\ methods = << >>
    /\ next = 1
    /\ pc = (Root :> "begin")
    /\ par = {}
    /\ cleanups = (Root :> << >>)
    /\ failed = {}
    /\ skipped = {}
    /\ calls = (Root :> << >>)
    /\ dirs = {}
    /\ orderOK = TRUE
    /\ stats = NilStats
    /\ delivered = << >>
    /\ faults = 0
    /\ faultAt = {}
    /\ warned = FALSE
    /\ exited = FALSE
    /\ escaped = FALSE
    /\ ctx = (Root :> ZeroSuite)
    /\ gheap = [a \in {} |-> ZeroG]
    /\ theap = [a \in {} |-> ZeroT]
    /\ reads = (Root :> {})
    /\ lastSet = NoCall
    /\ failFast = FALSE
    /\ embeds = TRUE
    /\ illShaped = {}
    /\ numFailed = 0
    /\ callOrder = << >>
    /\ errorf = << >>

\* one call of a setter on the struct; r is what the setter returns
SetterCall(op, arg, r) ==
    /\ ctx' = [ctx EXCEPT ![Root] = r.s]
    /\ lastSet' = [op |-> op, arg |-> arg, panic |-> r.panic]
    /\ UNCHANGED << has, decl, include, exclude, methods, next, pc, par, cleanups,
                    failed, skipped, calls, dirs, orderOK, stats, delivered, faults,
                    faultAt, warned, exited, escaped, gheap, theap, reads,
                    failFast, embeds, illShaped, numFailed, callOrder,
                    errorf >>

CallSetT == \E v \in Handles : SetterCall("setT", v, setT(ctx[Root], v))
CallSetG == \E v \in Globals : SetterCall("setG", v, setG(ctx[Root], v))
CallSetS == \E v \in Instances : SetterCall("setS", v, setS(ctx[Root], v))
CallSetP == \E v \in Instances : SetterCall("setP", v, setP(ctx[Root], v))

SetterNext == CallSetT \/ CallSetG \/ CallSetS \/ CallSetP

SpecSetters == SetterInit /\ [][SetterNext]_vars

-----------------------------------------------------------------------------
(* Calls of setField on a struct, one after the other: ctx[Root] is the       *)
(* struct behind input, lastSet the last call and what it returned.           *)

\* the structs, field names and values the calls are made with
Structs == { New(TestStruct), New(ParallelSuite), New(StdoutCapture) }
FieldNames == { "Field1", "Field2", "NonExistentField", "Suite", "oldStdout" }
Values ==
    { Value("string", "test value"), Value("string", "invalid type"),
      Value("int", 7), Value("*Suite", Addr("S", Root)),
      Value("*File", Addr("F", Root)), NilValue }

FieldInit ==
    /\ has = {}
    /\ decl = << >>
    /\ include = NoPattern
    /\ exclude = NoPattern
    /\ methods = << >>
    /\ next = 1
    /\ pc = (Root :> "begin")
    /\ par = {}
    /\ cleanups = (Root :> << >>)
    /\ failed = {}
    /\ skipped = {}
    /\ calls = (Root :> << >>)
    /\ dirs = {}
    /\ orderOK = TRUE
    /\ stats = NilStats
    /\ delivered = << >>
    /\ faults = 0
    /\ faultAt = {}
    /\ warned = FALSE
    /\ exited = FALSE
    /\ escaped = FALSE
    /\ \E input \in Structs : ctx = (Root :> input)
    /\ gheap = [a \in {} |-> ZeroG]
    /\ theap = [a \in {} |-> ZeroT]
    /\ reads = (Root :> {})
    /\ lastSet = NoCall
    /\ failFast = FALSE
    /\ embeds = TRUE
    /\ illShaped = {}
    /\ numFailed = 0
    /\ callOrder = << >>
    /\ errorf = << >>

\* one call setField(input, fieldName, value)
CallSetField ==
    \E fieldName \in FieldNames, value \in Values :
        LET r == setField(ctx[Root], fieldName, value) IN
        /\ ctx' = [ctx EXCEPT ![Root] = r.input]
        /\ lastSet' = [op |-> "setField", arg |-> << fieldName, value >>,
                       panic |-> r.panic, err |-> r.err, before |-> ctx[Root]]
        /\ UNCHANGED << has, decl, include, exclude, methods, next, pc, par, cleanups,
                        failed, skipped, calls, dirs, orderOK, stats, delivered, faults,
                        faultAt, warned, exited, escaped, gheap, theap, reads,
                        failFast, embeds, illShaped, numFailed, callOrder,
                        errorf >>

FieldNext == CallSetField

SpecField == FieldInit /\ [][FieldNext]_vars

-----------------------------------------------------------------------------
(* Runs of the call-logging suite in either mode of the engine: its test      *)
(* methods start no sub-test; some may be ill-shaped, and the suite type may  *)
(* lack the field Suite.                                                      *)

\* the test methods of the suite type
FailfastTests == << TestA1, TestA2Skip, TestB1 >>

ModesInit ==
    /\ has = FailfastHooks
    /\ decl = FailfastTests
    /\ include = NoPattern
    /\ exclude = NoPattern
    /\ methods = << >>
    /\ next = 1
    /\ pc = (Root :> "begin")
    /\ par = {}
    /\ cleanups = (Root :> << >>)
    /\ failed = {}
    /\ skipped = {}
    /\ calls = (Root :> << >>)
    /\ dirs = {}
    /\ orderOK = TRUE
    /\ stats = NilStats
    /\ delivered = << >>
    /\ faults = 0
    /\ faultAt = {}
    /\ warned = FALSE
    /\ exited = FALSE
    /\ escaped = FALSE
    /\ ctx = (Root :> RootSuite)
    /\ gheap = (RootSuite.g :> ZeroG)
    /\ theap = (RootSuite.suite :> ZeroT)
    /\ reads = (Root :> {})
    /\ lastSet = NoCall
    /\ failFast \in BOOLEAN
    /\ embeds \in BOOLEAN
    /\ illShaped \in SUBSET { TestA1, TestB1 }
    /\ numFailed = 0
    /\ callOrder = << >>
    /\ errorf = << >>

ModesNext ==
    \/ RunBegin
    \/ RunSetupSuite
    \/ RunTest
    \/ RunReturn
    \/ \E n \in Nodes : TestBegin(n)
    \/ \E n \in Nodes : TestSetupTest(n)
    \/ \E n \in Nodes : TestBeforeTest(n)
    \/ \E n \in Nodes : BodyParallel(n)
    \/ \E n \in Nodes : BodyError(n)
    \/ \E n \in Nodes : BodyEnd(n)
    \/ \E n \in Nodes : tRunnerCleanup(n)
    \/ \E n \in Nodes : tRunnerDone(n)

SpecModes == ModesInit /\ [][ModesNext]_vars

-----------------------------------------------------------------------------
(* The variant with one type parameter: T[D] and Run[D] *)

\* &T[D]{}
ZeroTD == [testingT |-> Nil, suite |-> Nil, testData |-> Nil]

\* T[D].setD: the struct after the call, and whether the call panicked
setD(t, testData) ==
    IF t.testData # Nil
    THEN [s |-> t, panic |-> TRUE]
    ELSE [s |-> [t EXCEPT !.testData = testData], panic |-> FALSE]

\* the T[D] of node n: setT(testingT), setS(suite), and setD(&testData) with
\* a testData of its own; the suite is the one value given to Run[D]
NewT(n) == setD(setS(setT(ZeroTD, Addr("t", n)).s, Addr("S", Root)).s, Addr("D", n)).s

\* methodFilter(name) of the variant: (ok, err), with the one flag
\* -testify-parallel.m
methodFilterD(name, m) ==
    IF ~MatchString(PatTest, name).matched
    THEN [ok |-> FALSE, err |-> FALSE]
    ELSE [ok |-> MatchString(m, name).matched, err |-> MatchString(m, name).err]

\* The loop of Run[D] over methodFinder.Method(i): the names kept, in order.
RECURSIVE SelectMethodsD(_, _)
SelectMethodsD(ms, m) ==
    IF ms = << >> THEN << >>
    ELSE IF methodFilterD(Head(ms), m).ok
         THEN << Head(ms) >> \o SelectMethodsD(Tail(ms), m)
         ELSE SelectMethodsD(Tail(ms), m)

\* The loop reaches os.Exit(1) iff some method's filter returns an error; no
\* method is kept, and SetupSuite is not called, before that.
FilterErrorD(ms, m) == \E i \in 1..Len(ms) : methodFilterD(ms[i], m).err

\* The hook or body h runs on the T[D] of node n and ends with `out`; a setup
\* hook writes the testData of the node.
InvokeD(n, h, out) ==
    /\ calls' = [calls EXCEPT ![n] = Append(@, h)]
    /\ Track(n, h, out)
    /\ faults' = IF out = "ok" THEN faults ELSE faults + 1
    /\ faultAt' = IF out = "ok" THEN faultAt ELSE faultAt \cup { << n, h, out >> }
    /\ theap' = IF out = "ok" /\ h \in SetupHooks
                THEN (ctx[n].testData :> WrittenT(n)) @@ theap
                ELSE theap
    /\ reads' = [reads EXCEPT ![n] = @ \cup
                    { [GlobalData |-> ZeroG.GlobalData,
                       PerTestData |-> PerTestDataOf(theap', ctx[n].testData)] }]
    /\ UNCHANGED gheap

NoInvokeD == UNCHANGED << calls, dirs, orderOK, faults, faultAt, gheap, theap, reads >>

\* the flag settings and suite types the runs of the variant start from
MatchMethods == { NoPattern, PatSkipEnd, PatTestB, PatInvalid }

InitD ==
    /\ has \in Capabilities
    /\ decl \in { FullSuite, NoTestSuite }
    /\ include \in MatchMethods
    /\ exclude = NoPattern
    /\ methods = << >>
    /\ next = 1
    /\ pc = (Root :> "begin")
    /\ par = {}
    /\ cleanups = (Root :> << >>)
    /\ failed = {}
    /\ skipped = {}
    /\ calls = (Root :> << >>)
    /\ dirs = {}
    /\ orderOK = TRUE
    /\ stats = NilStats
    /\ delivered = << >>
    /\ faults = 0
    /\ faultAt = {}
    /\ warned = FALSE
    /\ exited = FALSE
    /\ escaped = FALSE
    /\ ctx = (Root :> NewT(Root))
    /\ gheap = << >>
    /\ theap = (NewT(Root).testData :> ZeroT)
    /\ reads = (Root :> {})
    /\ lastSet = NoCall
    /\ failFast = FALSE
    /\ embeds = TRUE
    /\ illShaped = {}
    /\ numFailed = 0
    /\ callOrder = << >>
    /\ errorf = << >>

\* Run[D] up to the first method the filter keeps: the statistics, and the
\* loop over the methods as far as that method, where stats.Start is set; with
\* no such method the loop ends, the warning is logged and Run[D] returns.
RunD_Begin ==
    /\ Alive
    /\ pc[Root] = "begin"
    /\ IF FilterErrorD(methodFinder(decl), include)
       THEN /\ exited' = TRUE
            /\ UNCHANGED << methods, warned, pc, stats, numFailed >>
       ELSE /\ methods' = SelectMethodsD(methodFinder(decl), include)
            /\ UNCHANGED exited
            /\ IF Len(methods') = 0
               THEN /\ warned' = TRUE
                    /\ pc' = Finished(Root)
                    /\ numFailed' = tRunnerReturn(Root, failed)
                    /\ stats' = IF "HandleStats" \in has THEN newSuiteInformation ELSE stats
               ELSE /\ UNCHANGED << warned, numFailed >>
                    /\ pc' = [pc EXCEPT ![Root] = "setupSuite"]
                    /\ stats' = IF "HandleStats" \in has
                                THEN [newSuiteInformation EXCEPT !.Start = TimeNow]
                                ELSE stats
    /\ UNCHANGED << ctx, gheap, theap, reads, lastSet, cleanups, failed, escaped, errorf,
                    has, decl, include, exclude, next, par, skipped, calls,
                    dirs, orderOK, delivered, faults, faultAt,
                    failFast, embeds, illShaped, callOrder >>

\* the cleanup Run[D] registers once the loop over the methods has ended
RunCleanupsD == IF "TearDownSuite" \in has THEN << "TearDownSuite" >> ELSE << >>

\* SetupSuite, called from inside the loop over the methods; when it returns,
\* the rest of the loop, the deferred statistics delivery and the
\* TearDownSuite cleanup. A panic leaves Run[D] through its deferred
\* recoverAndFailOnPanic before either is set up.
RunD_SetupSuite ==
    /\ Alive
    /\ pc[Root] = "setupSuite"
    /\ \E out \in (IF "SetupSuite" \in has THEN HookOutcomes ELSE { "ok" }) :
         /\ IF "SetupSuite" \in has THEN InvokeD(Root, "SetupSuite", out) ELSE NoInvokeD
         /\ Unwind(Root, "Run", out, "loop")
         /\ cleanups' = [cleanups EXCEPT ![Root] = IF out = "ok" THEN RunCleanupsD ELSE @]
    /\ UNCHANGED << ctx, lastSet, has, decl, include, exclude, methods, next, par, skipped,
                    stats, delivered, warned, exited, failFast, embeds, illShaped,
                    callOrder >>

\* testingT.Run(test.Name, test.F): the engine creates the test node, whose
\* function F starts by building its T[D], and Run[D] waits until it is
\* complete or has called Parallel().
RunD_Test ==
    /\ Alive
    /\ pc[Root] = "loop"
    /\ next <= Len(methods)
    /\ IF shouldFailFast
       THEN UNCHANGED << pc, cleanups, calls, ctx, theap, reads >>
       ELSE /\ pc' = (<< next >> :> "begin") @@ [pc EXCEPT ![Root] = Blocked(Root)]
            /\ cleanups' = (<< next >> :> << >>) @@ cleanups
            /\ calls' = (<< next >> :> << >>) @@ calls
            /\ ctx' = (<< next >> :> NewT(<< next >>)) @@ ctx
            /\ theap' = (NewT(<< next >>).testData :> ZeroT) @@ theap
            /\ reads' = (<< next >> :> {}) @@ reads
    /\ next' = next + 1
    /\ UNCHANGED << gheap, lastSet, has, decl, include, exclude, methods, par, failed, skipped, dirs,
                    orderOK, stats, delivered, faults, faultAt, warned, exited,
                    escaped, failFast, embeds, illShaped, numFailed, callOrder,
                    errorf >>

\* Run[D] returns after the last T.Run of the loop: its deferred function
\* sets stats.End and calls HandleStats, then its deferred
\* recoverAndFailOnPanic runs, and the function of the suite node is finished.
RunD_Return ==
    /\ Alive
    /\ pc[Root] = "loop"
    /\ next > Len(methods)
    /\ pc' = Finished(Root)
    /\ IF stats.on
       THEN \E out \in HookOutcomes :
              /\ InvokeD(Root, "HandleStats", out)
              /\ stats' = [stats EXCEPT !.End = TimeNow]
              /\ delivered' = Append(delivered, stats')
              /\ failed' = recoverAndFailOnPanic(Root, out)
              /\ errorf' = panicReport(Root, out)
       ELSE /\ NoInvokeD
            /\ UNCHANGED << stats, delivered, failed, errorf >>
    /\ numFailed' = tRunnerReturn(Root, failed')
    /\ UNCHANGED << ctx, lastSet,
                    has, decl, include, exclude, methods, next, par, cleanups,
                    skipped, warned, exited, escaped, failFast, embeds, illShaped,
                    callOrder >>

\* The deferred function of F, run as F is left with outcome `out`:
\* stats.end(method.Name, !t.Failed() && r == nil), with the failed flags f
\* of that moment. Without a record of the test (stats.start was not reached)
\* stats.end writes nothing.
DeferredEnd(n, out, f) ==
    IF stats.on /\ TestName(n) \in DOMAIN stats.TestStats
    THEN end(stats, TestName(n), n \notin f /\ out # "panic")
    ELSE stats

\* F up to the return of SetupTest, if the suite has it
TestD_SetupTest(n) ==
    /\ Alive
    /\ IsTest(n)
    /\ pc[n] = "begin"
    /\ \E out \in (IF "SetupTest" \in has THEN HookOutcomes ELSE { "ok" }) :
         /\ IF "SetupTest" \in has THEN InvokeD(n, "SetupTest", out) ELSE NoInvokeD
         /\ Unwind(n, "F", out, "beforeTest")
         /\ stats' = IF out = "ok" THEN stats ELSE DeferredEnd(n, out, failed)
    /\ UNCHANGED << ctx, lastSet, has, decl, include, exclude, methods, next, par, skipped,
                    cleanups, delivered, warned, exited, failFast, embeds, illShaped,
                    callOrder >>

\* the cleanups F registers once SetupTest and BeforeTest have returned:
\* TearDownTest, then AfterTest
TestCleanupsD ==
    (IF "TearDownTest" \in has THEN << "TearDownTest" >> ELSE << >>)
    \o (IF "AfterTest" \in has THEN << "AfterTest" >> ELSE << >>)

\* BeforeTest, if the suite has it, then the two cleanups, stats.start and
\* the call of the method
TestD_BeforeTest(n) ==
    /\ Alive
    /\ IsTest(n)
    /\ pc[n] = "beforeTest"
    /\ \E out \in (IF "BeforeTest" \in has THEN HookOutcomes ELSE { "ok" }) :
         /\ IF "BeforeTest" \in has THEN InvokeD(n, "BeforeTest", out) ELSE NoInvokeD
         /\ Unwind(n, "F", out, "body")
         /\ cleanups' = [cleanups EXCEPT ![n] = IF out = "ok" THEN TestCleanupsD ELSE @]
         /\ stats' = IF out = "ok"
                     THEN (IF stats.on THEN start(stats, TestName(n)) ELSE stats)
                     ELSE DeferredEnd(n, out, failed)
    /\ UNCHANGED << ctx, lastSet, has, decl, include, exclude, methods, next, par, skipped,
                    delivered, warned, exited, failFast, embeds, illShaped, callOrder >>

\* T[D].Run: the sub-test function up to the call of subtest(newT):
\* SetupSubTest, if the suite has it, then the TearDownSubTest cleanup
SubTestD_Setup(n) ==
    /\ Alive
    /\ IsSubTest(n)
    /\ pc[n] = "begin"
    /\ \E out \in (IF "SetupSubTest" \in has THEN HookOutcomes ELSE { "ok" }) :
         /\ IF "SetupSubTest" \in has THEN InvokeD(n, "SetupSubTest", out) ELSE NoInvokeD
         /\ Unwind(n, "SuiteRun", out, "body")
         /\ cleanups' = [cleanups EXCEPT ![n] = IF out = "ok" THEN SubTestCleanups ELSE @]
    /\ UNCHANGED << ctx, lastSet, has, decl, include, exclude, methods, next, par, skipped, stats,
                    delivered, warned, exited, failFast, embeds, illShaped, callOrder >>

\* t.Run(name, subtest): T.Run creates the sub-test node, whose function
\* starts by building its T[D], and waits until it is complete or has called
\* Parallel().
BodyD_Run(n) ==
    /\ Alive
    /\ n # Root
    /\ pc[n] = "body"
    /\ CanRunSubTest
    /\ ~shouldFailFast
    /\ LET c == Append(n, Cardinality(Children(n)) + 1) IN
         /\ pc' = (c :> "begin") @@ [pc EXCEPT ![n] = Blocked(n)]
         /\ cleanups' = (c :> << >>) @@ cleanups
         /\ calls' = (c :> << >>) @@ calls
         /\ ctx' = (c :> NewT(c)) @@ ctx
         /\ theap' = (NewT(c).testData :> ZeroT) @@ theap
         /\ reads' = (c :> {}) @@ reads
    /\ UNCHANGED << gheap, lastSet, has, decl, include, exclude, methods, next, par, failed, skipped,
                    dirs, orderOK, stats, delivered, faults, faultAt, warned, exited,
                    escaped, failFast, embeds, illShaped, numFailed, callOrder,
                    errorf >>

\* The body ends: it returns, panics, calls FailNow (Require) or SkipNow. The
\* function of the node is left, so the deferred functions run: for a test,
\* the one that records the end of the test.
BodyD_End(n) ==
    /\ Alive
    /\ n # Root
    /\ pc[n] = "body"
    /\ \E out \in BodyOutcomes :
         /\ InvokeD(n, "Body", out)
         /\ IF out \in { "ok", "panic" }
            THEN /\ Unwind(n, Frame(n), out, "ret")
                 /\ stats' = IF IsTest(n) THEN DeferredEnd(n, out, failed) ELSE stats
                 /\ UNCHANGED skipped
            ELSE \* runtime.Goexit: recover() returns nil
                 /\ pc' = Finished(n)
                 /\ failed' = (IF out = "failnow" THEN Fail(n) ELSE failed)
                                \cup recoverAndFailOnPanic(n, out)
                 /\ stats' = IF IsTest(n) THEN DeferredEnd(n, out, failed') ELSE stats
                 /\ errorf' = panicReport(n, out)
                 /\ skipped' = IF out = "skip" THEN skipped \cup { n } ELSE skipped
                 /\ numFailed' = tRunnerReturn(n, failed')
                 /\ UNCHANGED escaped
    /\ UNCHANGED << ctx, lastSet, has, decl, include, exclude, methods, next, par, cleanups,
                    delivered, warned, exited, failFast, embeds, illShaped, callOrder >>

\* T.Cleanup's contract for the closures of the variant, which call the
\* teardown hook and nothing else: a panic in the hook is not recovered by
\* the suite and reaches the engine.
tRunnerD_Cleanup(n) ==
    /\ Alive
    /\ pc[n] = "waitsubs"
    /\ SubTestsDone(n)
    /\ cleanups[n] # << >>
    /\ \E out \in HookOutcomes :
         /\ InvokeD(n, NextCleanup(cleanups[n]), out)
         /\ escaped' = (out = "panic")
         /\ cleanups' = [cleanups EXCEPT ![n] = RestCleanups(@, out)]
    /\ UNCHANGED << ctx, lastSet, has, decl, include, exclude, methods, next, pc, par, skipped,
                    stats, delivered, failed, errorf, warned, exited, failFast, embeds,
                    illShaped, numFailed, callOrder >>

NextD ==
    \/ RunD_Begin
    \/ RunD_SetupSuite
    \/ RunD_Test
    \/ RunD_Return
    \/ \E n \in Nodes : TestD_SetupTest(n)
    \/ \E n \in Nodes : TestD_BeforeTest(n)
    \/ \E n \in Nodes : SubTestD_Setup(n)
    \/ \E n \in Nodes : BodyParallel(n)
    \/ \E n \in Nodes : BodyD_Run(n)
    \/ \E n \in Nodes : BodyError(n)
    \/ \E n \in Nodes : BodyD_End(n)
    \/ \E n \in Nodes : tRunnerD_Cleanup(n)
    \/ \E n \in Nodes : tRunnerDone(n)

SpecD == InitD /\ [][NextD]_vars

-----------------------------------------------------------------------------

(* Vocabulary of the properties *)

\* how often hook h was invoked on node n
Count(n, h) == Cardinality({ i \in 1..Len(calls[n]) : calls[n][i] = h })
Ran(n, h) == Count(n, h) > 0
RunSetNonEmpty == methods # << >>
SuiteDone == pc[Root] = "done"
\* every node below the suite node is complete and has no cleanup left
AllComplete == \A n \in Nodes \ { Root } : pc[n] = "done" /\ cleanups[n] = << >>
\* the teardown hook of a node
TearDownOf(n) ==
    IF n = Root THEN "TearDownSuite"
    ELSE IF IsTest(n) THEN "TearDownTest" ELSE "TearDownSubTest"
\* the setup hook of a node
SetupOf(n) ==
    IF n = Root THEN "SetupSuite"
    ELSE IF IsTest(n) THEN "SetupTest" ELSE "SetupSubTest"

-----------------------------------------------------------------------------
\* C1: with a non-empty run set and a suite that has TearDownSuite,
\* TearDownSuite is invoked at most once at any time and exactly once by the
\* end of the run, and from its invocation on every test and sub-test node is
\* complete (body ended, teardown hooks run, no cleanup left), whichever nodes
\* called Parallel() and however the engine interleaved them.
C1_TearDownSuiteOnceAfterAll ==
    /\ Count(Root, "TearDownSuite") <= 1
    /\ Ran(Root, "TearDownSuite") => AllComplete
    /\ (SuiteDone /\ RunSetNonEmpty /\ "TearDownSuite" \in has)
          => Count(Root, "TearDownSuite") = 1

\* TearDownSuite has run in a run where two tests and a sub-test called
\* Parallel().
C1_Witness ==
    /\ Ran(Root, "TearDownSuite")
    /\ { << 1 >>, << 2 >> } \subseteq par
    /\ \E n \in par : IsSubTest(n)
    /\ SuiteDone

-----------------------------------------------------------------------------
\* the nodes strictly below n
Descendants(n) == { m \in Nodes : m # n /\ InSubtree(m, n) }
\* no setup or teardown hook of the run has panicked
NoHookPanic == \A f \in faultAt : f[2] \notin SetupHooks \cup TearDownHooks

\* C2: for every test and sub-test node, once its teardown hook (TearDownTest,
\* TearDownSubTest) has been invoked every node below it is complete, its body
\* ended and its own TearDownSubTest run, also when it called Parallel(); a
\* descendant's setup hook has run only if the node's own setup hook has; and
\* in a suite whose setup and teardown hooks all write the tracker log, none
\* of them panicking, the log replays as a well-nested structure (a directory
\* is made inside its parent's and removed empty) and is balanced at the end.
C2_TearDownAfterSubtree ==
    /\ \A n \in Nodes \ { Root } :
         Ran(n, TearDownOf(n)) =>
            \A m \in Descendants(n) :
               /\ pc[m] = "done"
               /\ Ran(m, "Body") \/ \E f \in faultAt : f[1] = m
               /\ "TearDownSubTest" \in has => Ran(m, "TearDownSubTest")
    /\ \A n \in Nodes \ { Root } : \A m \in Descendants(n) :
         (SetupOf(n) \in has /\ (Ran(m, SetupOf(m)) \/ Ran(m, "Body")))
            => Ran(n, SetupOf(n))
    /\ (SetupHooks \cup TearDownHooks \subseteq has /\ NoHookPanic)
          => /\ orderOK
             /\ SuiteDone => dirs = {}

\* TearDownTest has run on a test below which a sub-test that called
\* Parallel() ran a sub-test of its own, every hook writing the tracker log.
C2_Witness ==
    /\ SetupHooks \cup TearDownHooks \subseteq has
    /\ \E n \in Nodes : \E m, k \in Descendants(n) :
         /\ IsTest(n)
         /\ Ran(n, "TearDownTest")
         /\ m \in par
         /\ Parent(k) = m
         /\ Ran(k, "TearDownSubTest")
    /\ dirs = { Root }

-----------------------------------------------------------------------------
\* the order of calls on a test node, for the hooks the suite has
HookChain ==
    SelectSeq(<< "SetupTest", "BeforeTest", "Body", "AfterTest", "TearDownTest" >>,
              LAMBDA h : h = "Body" \/ h \in has)
IsPrefix(a, b) == Len(a) <= Len(b) /\ a = SubSeq(b, 1, Len(a))
\* a hook or the body of node n ended by a panic, FailNow or SkipNow
Aborted(n) == \E f \in faultAt : f[1] = n /\ f[3] # "error"

\* C3: on every test node none of whose hooks and body ends abnormally, the
\* calls made so far are an initial part of SetupTest, BeforeTest, body,
\* AfterTest, TearDownTest (the hooks the suite has), and they are exactly
\* that sequence once the node is complete: each one once, AfterTest before
\* TearDownTest.
C3_HookOrder ==
    \A n \in Nodes :
        (IsTest(n) /\ ~Aborted(n)) =>
            /\ IsPrefix(calls[n], HookChain)
            /\ pc[n] = "done" => calls[n] = HookChain

\* A test of a suite that has every hook is complete, after it called
\* Parallel() and ran a sub-test, with all five calls made.
C3_Witness ==
    \E n \in Nodes :
        /\ IsTest(n)
        /\ ~Aborted(n)
        /\ n \in par
        /\ Children(n) # {}
        /\ pc[n] = "done"
        /\ Len(calls[n]) = 5

-----------------------------------------------------------------------------
\* cleanup k is registered on node n and has not run yet
Registered(n, k) == \E i \in 1..Len(cleanups[n]) : cleanups[n][i] = k
\* the teardown that matches a setup hook
Matching(h) ==
    CASE h = "SetupSuite" -> "TearDownSuite"
      [] h = "SetupTest" -> "TearDownTest"
      [] h = "BeforeTest" -> "AfterTest"
      [] h = "SetupSubTest" -> "TearDownSubTest"
\* the panics recorded in a setup hook
SetupPanics ==
    { f \in faultAt :
        f[2] \in { "SetupSuite", "SetupTest", "BeforeTest", "SetupSubTest" } }

\* C4: while SetupSuite, SetupTest or BeforeTest is about to run, the
\* matching teardown (TearDownSuite, TearDownTest, AfterTest) the suite has
\* is already registered as a cleanup of the node; and after a panic in
\* SetupSuite, SetupTest, BeforeTest or SetupSubTest the matching teardown of
\* that node is registered or has run, and has run exactly once by the time
\* the node is complete.
C4_TearDownRegisteredFirst ==
    /\ (pc[Root] = "setupSuite" /\ "TearDownSuite" \in has)
          => Registered(Root, "TearDownSuite")
    /\ \A n \in Nodes \ { Root } :
         /\ (IsTest(n) /\ pc[n] = "setupTest" /\ "TearDownTest" \in has)
               => Registered(n, "TearDownTest")
         /\ (IsTest(n) /\ pc[n] = "beforeTest" /\ "AfterTest" \in has)
               => Registered(n, "AfterTest")
    /\ \A f \in SetupPanics :
         Matching(f[2]) \in has =>
            /\ Registered(f[1], Matching(f[2])) \/ Ran(f[1], Matching(f[2]))
            /\ pc[f[1]] = "done" => Count(f[1], Matching(f[2])) = 1

\* SetupTest panicked on a test, whose TearDownTest has run all the same, and
\* the run is over.
C4_Witness ==
    /\ \E f \in SetupPanics :
         /\ f[2] = "SetupTest"
         /\ Ran(f[1], "TearDownTest")
         /\ ~Ran(f[1], "Body")
    /\ SuiteDone

-----------------------------------------------------------------------------
\* the panics recorded in the run
Panics == { f \in faultAt : f[3] = "panic" }

\* C5: no panic raised in a hook or a body leaves the suite run (it never
\* reaches the engine's caller), and from the moment a hook or body of a node
\* has panicked that node is marked failed and so is the suite node, the
\* outcome of the run.
C5_PanicCaught ==
    /\ ~escaped
    /\ \A f \in Panics : f[1] \in failed /\ Root \in failed

\* TearDownSubTest panicked on a sub-test that called Parallel(); the run
\* went on to its end and is failed.
C5_Witness ==
    /\ \E f \in Panics :
         /\ f[2] = "TearDownSubTest"
         /\ f[1] \in par
         /\ f[1] \in failed
    /\ SuiteDone
    /\ Ran(Root, "TearDownSuite")
    /\ Root \in failed

-----------------------------------------------------------------------------
\* the test nodes of the run set
RunSet == { << i >> : i \in 1..Len(methods) }
\* a hook or body of node n or of a node below it panicked, failed or skipped
FaultBelow(n) == \E f \in faultAt : InSubtree(f[1], n)
\* a hook or body of a test or sub-test panicked
TestPanicked == \E f \in Panics : f[1] # Root

\* C6: a test with no panic and no failure in itself or its sub-tests is
\* never marked failed, whatever happens in the other tests; when a test or
\* sub-test hook or body has panicked and the run is over, every test of the
\* run set was run, each test without a fault of its own made its whole chain
\* of calls, and the statistics delivered record Passed = true for it.
C6_SiblingsUnaffected ==
    /\ \A n \in Nodes \ { Root } : ~FaultBelow(n) => n \notin failed
    /\ (SuiteDone /\ TestPanicked) =>
          /\ RunSet \subseteq Nodes
          /\ \A n \in RunSet :
               ~FaultBelow(n) =>
                  /\ calls[n] = HookChain
                  /\ \A i \in 1..Len(delivered) :
                        delivered[i].TestStats[TestName(n)].Passed

\* Two tests called Parallel(); the body of one panicked, the other is not
\* failed, and the statistics delivered say so.
C6_Witness ==
    /\ SuiteDone
    /\ { << 1 >>, << 2 >> } \subseteq par
    /\ << << 1 >>, "Body", "panic" >> \in faultAt
    /\ << 2 >> \notin failed
    /\ Len(delivered) = 1
    /\ delivered[1].TestStats[TestName(<< 2 >>)].Passed
    /\ ~delivered[1].TestStats[TestName(<< 1 >>)].Passed

-----------------------------------------------------------------------------
\* the tests whose body panicked or reported a failed assertion
BodyFailed ==
    { n \in Nodes :
        IsTest(n) /\ \E f \in faultAt :
            f[1] = n /\ f[2] = "Body" /\ f[3] \in { "panic", "error", "failnow" } }

\* C7: a test whose body panicked or reported a failed assertion is failed
\* and so is the run; by the time the test is complete its AfterTest and its
\* TearDownTest (if the suite has them) have each run once; TearDownSuite runs
\* only after the test is complete, and has run once when the run is over.
C7_FailingTestTornDown ==
    \A n \in BodyFailed :
        /\ n \in failed /\ Root \in failed
        /\ pc[n] = "done" =>
              /\ "AfterTest" \in has => Count(n, "AfterTest") = 1
              /\ "TearDownTest" \in has => Count(n, "TearDownTest") = 1
        /\ Ran(Root, "TearDownSuite") => pc[n] = "done"
        /\ (SuiteDone /\ "TearDownSuite" \in has) => Count(Root, "TearDownSuite") = 1

\* The body of a test reported a failed assertion and went on to its end;
\* AfterTest, TearDownTest and TearDownSuite have run and the run is failed.
C7_Witness ==
    /\ \E n \in BodyFailed :
         /\ << n, "Body", "error" >> \in faultAt
         /\ Ran(n, "Body")
         /\ Ran(n, "AfterTest")
         /\ Ran(n, "TearDownTest")
    /\ Ran(Root, "TearDownSuite")
    /\ SuiteDone
    /\ Root \in failed

-----------------------------------------------------------------------------
\* Run has computed the run set and it is empty
EmptyRun == pc[Root] # "begin" /\ methods = << >>

\* C8: when the run set is empty after filtering (no Test-prefixed method, or
\* none that the filters let through), no hook is ever invoked on the suite
\* (SetupSuite, TearDownSuite and HandleStats included), no cleanup is
\* registered, no test node is created, nothing is delivered, the run is not
\* marked failed and the warning is logged; the warning is logged in no other
\* run.
C8_EmptyRunSet ==
    /\ EmptyRun =>
          /\ calls[Root] = << >>
          /\ cleanups[Root] = << >>
          /\ Nodes = { Root }
          /\ delivered = << >>
          /\ failed = {}
          /\ warned
          /\ pc[Root] \in { "waitsubs", "done" }
    /\ warned => EmptyRun

\* The run of a suite that has every hook and two test methods, none of which
\* the testify.m pattern lets through, is over.
C8_Witness ==
    /\ has = AllHooks
    /\ decl = FullSuite
    /\ include = PatTestB
    /\ EmptyRun
    /\ SuiteDone

-----------------------------------------------------------------------------
\* the end of every test that was started is recorded in s
EndsRecorded(s) ==
    \A n \in Nodes : IsTest(n) =>
        /\ TestName(n) \in DOMAIN s.TestStats
        /\ s.TestStats[TestName(n)].End # ZeroTime

\* C9: HandleStats is invoked at most once, and exactly once by the end of a
\* run with a non-empty run set of a suite that has it; once it has been
\* invoked every test and sub-test is complete, the end of every test is
\* recorded in the statistics it was given, TearDownSuite (if the suite has it)
\* has run, no cleanup of the suite node is left, and the statistics do not
\* change any more.
C9_HandleStatsOnceLast ==
    /\ Count(Root, "HandleStats") <= 1
    /\ Len(delivered) = Count(Root, "HandleStats")
    /\ Ran(Root, "HandleStats") =>
          /\ AllComplete
          /\ cleanups[Root] = << >>
          /\ "TearDownSuite" \in has => Ran(Root, "TearDownSuite")
          /\ EndsRecorded(delivered[1])
          /\ delivered[1] = stats
    /\ (SuiteDone /\ RunSetNonEmpty /\ "HandleStats" \in has)
          => Count(Root, "HandleStats") = 1

\* HandleStats has run at the end of a run of a suite with every hook in which
\* both tests and a sub-test called Parallel().
C9_Witness ==
    /\ has = AllHooks
    /\ Ran(Root, "HandleStats")
    /\ Ran(Root, "TearDownSuite")
    /\ { << 1 >>, << 2 >> } \subseteq par
    /\ \E n \in par : IsSubTest(n) /\ Ran(n, "TearDownSubTest")
    /\ SuiteDone

-----------------------------------------------------------------------------
\* test n, or a sub-test below it, panicked or reported a failure
PanickedOrFailed(n) ==
    \E f \in faultAt :
        InSubtree(f[1], n) /\ f[3] \in { "panic", "error", "failnow" }
\* the names of the tests that were started
Started == { TestName(n) : n \in { m \in Nodes : IsTest(m) /\ pc[m] # "begin" } }

\* C10: the statistics given to HandleStats hold a record for exactly the
\* tests that were started, each with a start and an end time; the record of
\* a test says Passed = false if the test or one of its sub-tests panicked or
\* reported a failure (in a body or in a hook), and Passed = true otherwise;
\* and Passed() of the whole is false as soon as one record says false.
C10_DeliveredStats ==
    \A i \in 1..Len(delivered) :
        LET s == delivered[i] IN
        /\ DOMAIN s.TestStats = Started
        /\ \A n \in Nodes : IsTest(n) =>
             /\ s.TestStats[TestName(n)].Start # ZeroTime
             /\ s.TestStats[TestName(n)].End # ZeroTime
             /\ s.TestStats[TestName(n)].Passed <=> ~PanickedOrFailed(n)
        /\ (\E name \in DOMAIN s.TestStats : ~s.TestStats[name].Passed) => ~Passed(s)
        /\ s.Start # ZeroTime /\ s.End # ZeroTime

\* Two tests run one after the other, the first panics in its body and the
\* second passes: the statistics delivered have both records complete, false
\* and true, and Passed() is false.
C10_Witness ==
    /\ par = {}
    /\ << << 1 >>, "Body", "panic" >> \in faultAt
    /\ Len(delivered) = 1
    /\ DOMAIN delivered[1].TestStats = { TestA1, TestA2Skip }
    /\ ~delivered[1].TestStats[TestA1].Passed
    /\ delivered[1].TestStats[TestA2Skip].Passed
    /\ delivered[1].TestStats[TestA2Skip].End # ZeroTime
    /\ ~Passed(delivered[1])
    /\ SuiteDone

-----------------------------------------------------------------------------
(* The run set *)

\* the name begins with "Test"
HasTestPrefix(name) ==
    Len(name) >= Len(TestPrefix) /\ SubSeq(name, 1, Len(TestPrefix)) = TestPrefix
Names(seq) == { seq[i] : i \in 1..Len(seq) }
\* the flag is set
Supplied(p) == p.src # ""
Matches(p, name) == MatchString(p, name).matched
\* Run is past the loop that computes the run set
RunSetComputed == pc[Root] # "begin"

\* C11: for valid patterns the run set is the set of the methods whose name
\* starts with "Test", matches the include pattern (if one is set) and does
\* not match the exclude pattern (if one is set), also when both are set.
C11_IncludeThenExclude ==
    (RunSetComputed /\ include.valid /\ exclude.valid) =>
        Names(methods) =
            { m \in Names(decl) :
                /\ HasTestPrefix(m)
                /\ Supplied(include) => Matches(include, m)
                /\ ~(Supplied(exclude) /\ Matches(exclude, m)) }

C13_OnlyTestPrefixed ==
    /\ \A i \in 1..Len(methods) : HasTestPrefix(methods[i])
    /\ \A n \in Nodes : IsTest(n) =>
          /\ n[1] \in 1..Len(methods)
          /\ HasTestPrefix(TestName(n))

\* The include pattern "Test" matches NonTestMethod, which the suite has; the
\* run, of other methods, is over.
C13_Witness ==
    /\ NonTestMethod \in Names(decl)
    /\ Supplied(include)
    /\ Matches(include, NonTestMethod)
    /\ methods # << >>
    /\ \E n \in Nodes : IsTest(n) /\ Ran(n, "Body")
    /\ SuiteDone

\* C14: with an invalid include or exclude pattern Run never gets past the
\* computation of the run set: no warning, no hook, no test node.
C14_InvalidPatternFatal ==
    (~include.valid \/ ~exclude.valid) =>
        /\ pc[Root] = "begin"
        /\ ~warned
        /\ calls[Root] = << >>
        /\ Nodes = { Root }

\* the names of seq that are in the run set, in the order of seq
Selected(seq) == SelectSeq(seq, LAMBDA m : m \in Names(methods))

\* C15 as stated: the run set lists the selected methods in the order in
\* which the suite declares them.
C15_DeclarationOrder == RunSetComputed => methods = Selected(decl)

\* C15, amended: the run set lists the selected methods sorted by name (the
\* order reflect enumerates the methods of a type in), whatever the order the
\* suite declares them in; it is a function of the declared methods and the
\* two flags alone; and the tests are created in that order, test i+1 only
\* once test i is complete or has called Parallel().
C15_SortedOrder ==
    /\ \A i, j \in 1..Len(methods) : i < j => LexLess(methods[i], methods[j])
    /\ RunSetComputed => methods = Selected(SortSeq(decl, LexLess))
    /\ \A n \in Nodes : IsTest(n) =>
          /\ n[1] < next
          /\ \A j \in 1..(n[1] - 1) :
                /\ << j >> \in Nodes
                /\ pc[<< j >>] = "done" \/ << j >> \in par

\* A suite that declares TestB1, TestA2Skip, NonTestMethod, TestA1 in this
\* order has run TestA1, TestA2Skip, TestB1, in this order, to the end.
C15_Witness ==
    /\ decl = << TestB1, TestA2Skip, NonTestMethod, TestA1 >>
    /\ methods = << TestA1, TestA2Skip, TestB1 >>
    /\ { << 1 >>, << 2 >>, << 3 >> } \subseteq Nodes
    /\ << 2 >> \in par
    /\ SuiteDone

-----------------------------------------------------------------------------
(* Global and private data *)

\* C16: at every moment of a run exactly one G object exists, the one Run
\* allocated before SetupSuite and before any test node, and the Suite of
\* every node (suite node, tests, sub-tests at any depth) points to it.
C16_OneGlobalContext ==
    /\ ctx[Root].g # Nil
    /\ DOMAIN gheap = { ctx[Root].g }
    /\ \A n \in Nodes : ctx[n].g = ctx[Root].g

\* The run of a suite in which a sub-test of a sub-test ran, next to a
\* parallel test, is over.
C16_Witness ==
    /\ \E n \in Nodes : Len(n) = 3 /\ Ran(n, "Body") /\ ctx[n].g = Addr("G", Root)
    /\ \E n \in par : IsTest(n)
    /\ Cardinality(Nodes) >= 4
    /\ SuiteDone

\* C17: in a suite that has SetupSuite, a test node exists only once
\* SetupSuite has returned normally, and every hook and body of every test and
\* sub-test that reads the global data reads what SetupSuite wrote.
C17_SetupSuiteVisible ==
    "SetupSuite" \in has =>
        /\ Nodes # { Root } =>
              /\ Ran(Root, "SetupSuite")
              /\ << Root, "SetupSuite", "panic" >> \notin faultAt
        /\ \A n \in Nodes \ { Root } : \A r \in reads[n] :
              r.GlobalData = WrittenG.GlobalData

\* A test and a sub-test, both after a call of Parallel(), have read the
\* global data that SetupSuite wrote, in their hooks and bodies.
C17_Witness ==
    /\ has = AllHooks
    /\ \E n, m \in par :
         /\ IsTest(n) /\ IsSubTest(m)
         /\ Ran(n, "Body") /\ Ran(m, "Body")
         /\ reads[n] # {} /\ reads[m] # {}
         /\ \A r \in reads[m] : r.GlobalData = "[G]"
    /\ SuiteDone

\* the private data of node n
PrivateData(n) == PerTestDataOf(theap, ctx[n].suite)

\* C18: the Suites of two different nodes never point to the same private
\* instance; the private data of a test or sub-test node is zero until the
\* node's own setup hook writes it, and afterwards holds what that node wrote;
\* and no hook or body ever reads from its private data a value another node
\* wrote.
C18_PrivateDataIsolated ==
    /\ \A n, m \in Nodes : n # m => ctx[n].suite # ctx[m].suite
    /\ \A n \in Nodes \ { Root } :
         /\ ctx[n].suite \in DOMAIN theap
         /\ PrivateData(n) \in { ZeroT.PerTestData, WrittenT(n).PerTestData }
         /\ ~Ran(n, SetupOf(n)) => PrivateData(n) = ZeroT.PerTestData
         /\ \A r \in reads[n] :
               r.PerTestData \in { ZeroT.PerTestData, WrittenT(n).PerTestData }

\* Two sub-tests of one test both called Parallel(), each wrote its private
\* data in SetupSubTest, and each holds its own value after its body.
C18_Witness ==
    \E n, m \in par :
        /\ n # m
        /\ IsSubTest(n) /\ IsSubTest(m)
        /\ Parent(n) = Parent(m)
        /\ Ran(n, "Body") /\ Ran(m, "Body")
        /\ PrivateData(n) = WrittenT(n).PerTestData
        /\ PrivateData(m) = WrittenT(m).PerTestData

\* C20 as stated: the parent reference of a test node is nil, that of a
\* sub-test node is not.
C20_TestParentNil ==
    \A n \in Nodes \ { Root } :
        /\ IsTest(n) => ctx[n].parent = Nil
        /\ IsSubTest(n) => ctx[n].parent # Nil

\* C20, amended: only the suite node has a nil parent reference; the parent
\* reference of a test node is the instance of the suite node, and that of a
\* sub-test the instance of the node whose Run created it.
C20_ParentIsCreator ==
    /\ ctx[Root].parent = Nil
    /\ \A n \in Nodes \ { Root } :
         /\ ctx[n].parent # Nil
         /\ ctx[n].parent = ctx[Parent(n)].suite

\* A test and a sub-test of it have run: the parent of the test is the
\* instance of the suite node, the parent of the sub-test that of the test.
C20_Witness ==
    \E n, m \in Nodes :
        /\ IsTest(n) /\ Parent(m) = n /\ m # Root
        /\ Ran(m, "Body")
        /\ ctx[n].parent = Addr("T", Root)
        /\ ctx[m].parent = Addr("T", n)

-----------------------------------------------------------------------------
\* the setter of a field of the Suite struct
SetterOf(f) ==
    CASE f = "testingT" -> "setT"
      [] f = "g" -> "setG"
      [] f = "suite" -> "setS"

\* C19: once the engine handle, the global-data pointer or the private
\* instance of a Suite is set (not nil), no setter call changes it, and a call
\* of its own setter panics and leaves the whole struct as it was.
C19_SetOnce ==
    [][\A f \in { "testingT", "g", "suite" } :
          ctx[Root][f] # Nil =>
             /\ ctx'[Root][f] = ctx[Root][f]
             /\ lastSet'.op = SetterOf(f) => (lastSet'.panic /\ ctx' = ctx)]_vars

\* With all three fields set, setS was called with another instance: the call
\* panicked and the field holds the first instance.
C19_Witness ==
    /\ ctx[Root].testingT # Nil
    /\ ctx[Root].g # Nil
    /\ ctx[Root].suite # Nil
    /\ lastSet.op = "setS"
    /\ lastSet.arg \notin { Nil, ctx[Root].suite }
    /\ lastSet.panic

-----------------------------------------------------------------------------
\* the order of calls on a sub-test node, for the hooks the suite has
SubTestChain ==
    SelectSeq(<< "SetupSubTest", "Body", "TearDownSubTest" >>,
              LAMBDA h : h = "Body" \/ h \in has)

\* C21: every sub-test node, at whatever depth, is the one node of one
\* Run(name, fn) call of the node above it (the sub-tests of a node are
\* numbered by its calls, without gap); its parent is the instance of the
\* calling node, its Global Context is the caller's, its instance belongs to
\* no other node and holds zero data until its SetupSubTest; and its calls
\* are an initial part of SetupSubTest, fn, TearDownSubTest (the hooks the
\* suite has), and exactly that sequence once it is complete, unless one of
\* them ended abnormally.
C21_SubTestCreated ==
    \A n \in SubTests :
        /\ Parent(n) \in Nodes \ { Root }
        /\ n[Len(n)] \in 1..Cardinality(Children(Parent(n)))
        /\ ctx[n].parent = ctx[Parent(n)].suite
        /\ ctx[n].g = ctx[Parent(n)].g
        /\ \A m \in Nodes \ { n } : ctx[m].suite # ctx[n].suite
        /\ pc[n] = "begin" => theap[ctx[n].suite] = ZeroT
        /\ ~Aborted(n) =>
              /\ IsPrefix(calls[n], SubTestChain)
              /\ pc[n] = "done" => calls[n] = SubTestChain

\* A sub-test of a sub-test of a test is complete with its three calls made,
\* in a suite that has both sub-test hooks, next to a second sub-test.
C21_Witness ==
    \E n \in SubTests :
        /\ Len(n) = 3
        /\ pc[n] = "done"
        /\ calls[n] = << "SetupSubTest", "Body", "TearDownSubTest" >>
        /\ ctx[n].parent = ctx[Parent(n)].suite
        /\ \E m \in SubTests : Len(m) = 2 /\ m[2] = 2

-----------------------------------------------------------------------------
\* the calls of tests i..k run one after the other
RECURSIVE TestCalls(_, _)
TestCalls(i, k) ==
    IF i > k THEN << >>
    ELSE << << << i >>, "SetupTest" >>, << << i >>, "Body" >>,
            << << i >>, "TearDownTest" >> >> \o TestCalls(i + 1, k)
\* the calls of a run of the call-logging suite over tests 1..k
SuiteCalls(k) ==
    << << Root, "SetupSuite" >> >> \o TestCalls(1, k)
        \o << << Root, "TearDownSuite" >> >>
\* every method of the run set has the expected call shape
WellShaped == \A i \in 1..Len(methods) : methods[i] \notin illShaped
\* a run of a well-formed suite in which no setup hook panics
Regular == embeds /\ WellShaped /\ SetupPanics = {}

\* C22: in a run of the call-logging suite without fail-fast, as long as no
\* test has called Parallel() (and no setup hook has panicked), the calls
\* logged are an initial part of SetupSuite, then SetupTest, body,
\* TearDownTest for each test of the run set in order, then TearDownSuite,
\* and exactly that sequence at the end of the run; test i+1 is created only
\* once test i is complete; and a failed assertion in a body that goes on
\* leaves the sequence as it is: the test's TearDownTest and every later
\* test still run.
C22_SequentialOrder ==
    (~failFast /\ par = {} /\ Regular) =>
        /\ IsPrefix(callOrder, SuiteCalls(Len(methods)))
        /\ SuiteDone => callOrder = SuiteCalls(Len(methods))
        /\ \A n \in Nodes \ { Root } :
             (n[1] + 1 <= Len(methods) /\ << n[1] + 1 >> \in Nodes)
                => pc[n] = "done"
        /\ \A f \in faultAt :
             (f[3] = "error" /\ SuiteDone) =>
                /\ Ran(f[1], "TearDownTest")
                /\ \A i \in 1..Len(methods) :
                     << i >> \in Nodes /\ Ran(<< i >>, "Body")

\* A sequential run without fail-fast is over: the first of its three tests
\* reported a failed assertion, and all eleven calls were logged.
C22_Witness ==
    /\ ~failFast
    /\ par = {}
    /\ Regular
    /\ SuiteDone
    /\ << << 1 >>, "Body", "error" >> \in faultAt
    /\ Len(callOrder) = 11
    /\ callOrder = SuiteCalls(3)

-----------------------------------------------------------------------------
\* the tests of the run marked failed
FailedTests == { i \in 1..Len(methods) : << i >> \in Nodes /\ << i >> \in failed }
\* the first of them in run-set order
FirstFailed == CHOOSE i \in FailedTests : \A j \in FailedTests : i <= j

\* C23 as stated: in fail-fast mode, once a failed test is complete, no node
\* of a later test of the run set is created and no hook and no body is
\* invoked on one.
C23_FailFastStopsLaterTests ==
    [][ \A i \in FailedTests :
          (failFast /\ pc[<< i >>] = "done") =>
             \A j \in (i + 1)..Len(methods) :
                << j >> \in DOMAIN pc' =>
                   /\ << j >> \in Nodes
                   /\ calls'[<< j >>] = calls[<< j >>] ]_vars

\* C23, amended: in fail-fast mode, as long as no test has called Parallel()
\* (and no setup hook has panicked), no node of a test later than a failed
\* one exists, a failed test that is complete has run its TearDownTest, and
\* at the end of a run in which a test failed TearDownSuite has run and the
\* calls logged are SetupSuite, the calls of the tests up to the first failed
\* one, TearDownSuite.
C23_FailFastSequential ==
    (failFast /\ par = {} /\ Regular) =>
        /\ \A i \in FailedTests : \A j \in 1..Len(methods) :
             i < j => << j >> \notin Nodes
        /\ \A i \in FailedTests :
             pc[<< i >>] = "done" => Count(<< i >>, "TearDownTest") = 1
        /\ (SuiteDone /\ FailedTests # {}) =>
             /\ callOrder = SuiteCalls(FirstFailed)
             /\ Count(Root, "TearDownSuite") = 1

\* A sequential run in fail-fast mode is over: the first of three tests
\* failed, and only its calls and the suite's were logged.
C23_Witness ==
    /\ failFast
    /\ par = {}
    /\ Regular
    /\ SuiteDone
    /\ Len(methods) = 3
    /\ FailedTests = { 1 }
    /\ Nodes = { Root, << 1 >> }
    /\ callOrder = SuiteCalls(1)

-----------------------------------------------------------------------------
\* the tests whose body ended with T.Skip / T.SkipNow
SkippedTests == { n \in Nodes : IsTest(n) /\ << n, "Body", "skip" >> \in faultAt }
\* the position of the first call of h on node n
FirstCall(n, h) == CHOOSE i \in 1..Len(calls[n]) : calls[n][i] = h /\
                        \A j \in 1..(i - 1) : calls[n][j] # h

\* C24: a test whose body ended with a skip is marked skipped; unless
\* something else went wrong on it or below it, it is not marked failed and
\* no panic is reported on it, and a run in which the skip is the only
\* abnormal outcome has no failed node at all; its SetupTest (if the suite
\* has it) ran first, before the body; and its TearDownTest (if the suite has
\* it) runs after the body, at most once, and exactly once by the time the
\* test is complete.
C24_SkipNotFailure ==
    \A n \in SkippedTests :
        /\ n \in skipped
        /\ (\A f \in faultAt : InSubtree(f[1], n) => f = << n, "Body", "skip" >>)
              => /\ n \notin failed
                 /\ \A i \in 1..Len(errorf) : errorf[i] # n
        /\ faultAt = { << n, "Body", "skip" >> } => failed = {}
        /\ "SetupTest" \in has => calls[n][1] = "SetupTest"
        /\ "TearDownTest" \in has =>
              /\ Count(n, "TearDownTest") <= 1
              /\ Ran(n, "TearDownTest")
                    => FirstCall(n, "Body") < FirstCall(n, "TearDownTest")
              /\ pc[n] = "done" => Count(n, "TearDownTest") = 1

\* The body of a test skipped after SetupTest; its TearDownTest has run, the
\* run is over and nothing is marked failed.
C24_Witness ==
    /\ SuiteDone
    /\ failed = {}
    /\ \E n \in SkippedTests :
         /\ n \in skipped
         /\ Ran(n, "SetupTest")
         /\ Count(n, "TearDownTest") = 1
         /\ pc[n] = "done"

-----------------------------------------------------------------------------
\* the tests whose body ended with FailNow (a failed Require assertion)
FailNowTests == { n \in Nodes : IsTest(n) /\ << n, "Body", "failnow" >> \in faultAt }
\* the number of "test panicked" reports written on node n
Reports(n) == Cardinality({ i \in 1..Len(errorf) : errorf[i] = n })

-----------------------------------------------------------------------------
\* C26: when the suite type lacks the field Suite, nothing of the suite ever
\* runs: no node besides the suite node is created, no hook and no body is
\* called or logged, no cleanup is registered, the run set is not computed,
\* and Run neither warns of an empty run set nor exits; and from Run's first
\* step on the suite node is marked failed, with exactly one panic report,
\* written on the suite node, the panic caught by Run's recovery boundary.
C26_MissingFieldFatal ==
    ~embeds =>
        /\ Nodes = { Root }
        /\ calls[Root] = << >>
        /\ callOrder = << >>
        /\ cleanups[Root] = << >>
        /\ methods = << >>
        /\ ~warned /\ ~exited /\ ~escaped
        /\ pc[Root] # "begin" =>
              /\ Root \in failed
              /\ errorf = << Root >>

\* The run of a suite type without the field Suite is over and failed.
C26_Witness ==
    /\ ~embeds
    /\ SuiteDone
    /\ Root \in failed
    /\ errorf = << Root >>
    /\ decl = FailfastTests

-----------------------------------------------------------------------------
\* the test nodes whose method does not have the expected call shape
IllShapedTests == { n \in Nodes : IsTest(n) /\ TestName(n) \in illShaped }
\* the panics injected on node n
PanicsAt(n) == { f \in faultAt : f[1] = n /\ f[3] = "panic" }
\* the function of node n has been left
FunctionLeft(n) == pc[n] \in { "waitsubs", "done" }

-----------------------------------------------------------------------------
\* the statistics hold the end of test n
EndRecorded(n) ==
    /\ stats.on
    /\ TestName(n) \in DOMAIN stats.TestStats
    /\ stats.TestStats[TestName(n)].End # ZeroTime

\* C28: on every test node of a run that collects statistics, the
\* statistics cleanup is the first one registered, so the last one to run;
\* once the end of the test is recorded its body has ended, every sub-test
\* below it (parallel or not) is complete, its AfterTest (registered after a
\* SetupTest that returned) and its TearDownTest have each run once and no
\* cleanup of the node is left; the outcome recorded is Passed = false exactly
\* if the failure flag of the test is set, which is exactly if a hook or body
\* of the test or of a sub-test below it panicked or reported a failure; and
\* the end is recorded by the time the test is complete.
C28_StatsEndLast ==
    \A n \in Nodes : (IsTest(n) /\ stats.on) =>
        /\ Registered(n, "statsEnd") => cleanups[n][1] = "statsEnd"
        /\ (pc[n] # "begin" /\ ~EndRecorded(n)) => Registered(n, "statsEnd")
        /\ pc[n] = "done" => EndRecorded(n)
        /\ EndRecorded(n) =>
              /\ FunctionLeft(n)
              /\ cleanups[n] = << >>
              /\ \A m \in Descendants(n) : pc[m] = "done" /\ cleanups[m] = << >>
              /\ "TearDownTest" \in has => Count(n, "TearDownTest") = 1
              /\ ("AfterTest" \in has /\ << n, "SetupTest", "panic" >> \notin faultAt)
                    => Count(n, "AfterTest") = 1
              /\ stats.TestStats[TestName(n)].Passed <=> n \notin failed
              /\ stats.TestStats[TestName(n)].Passed <=> ~PanickedOrFailed(n)

\* The end of a test is recorded as failed after a sub-test of it that
\* called Parallel() went wrong, in a suite with every hook; AfterTest and
\* TearDownTest of the test have run.
C28_Witness ==
    \E n \in Nodes :
        /\ IsTest(n)
        /\ has = AllHooks
        /\ EndRecorded(n)
        /\ ~stats.TestStats[TestName(n)].Passed
        /\ \E m \in Descendants(n) : m \in par /\ \E f \in faultAt : f[1] = m
        /\ \A f \in faultAt : f[1] # n
        /\ Ran(n, "AfterTest")
        /\ Ran(n, "TearDownTest")

-----------------------------------------------------------------------------
\* the test nodes the loop of Run is still held by: neither complete nor
\* handed to the engine's parallel scheduling
Held == { n \in Nodes : IsTest(n) /\ pc[n] # "done" /\ n \notin par }

\* C29: the test nodes created are those of the first tests of the run set,
\* one per test, in run-set order and without gap, as far as the loop of Run
\* has come; the node of test k+1 exists only if test k is complete or has
\* called Parallel(); at any time at most one test node is neither complete
\* nor parallel, it is the one created last, and the loop of Run is inside
\* the T.Run call that created it; and a test that called Parallel() stays
\* where it called it as long as Run has not returned.
C29_SynchronousCreation ==
    /\ { n \in Nodes : IsTest(n) } = { << i >> : i \in 1..(next - 1) }
    /\ next - 1 <= Len(methods)
    /\ \A n \in Nodes : IsTest(n) => TestName(n) = methods[n[1]]
    /\ \A i \in 1..Len(methods) :
         << i + 1 >> \in Nodes => (pc[<< i >>] = "done" \/ << i >> \in par)
    /\ Cardinality(Held) <= 1
    /\ \A n \in Held : n = << next - 1 >> /\ pc[Root] = "wait"
    /\ pc[Root] = "wait" => Held # {}
    /\ \A n \in par :
         (IsTest(n) /\ pc[Root] \in { "loop", "wait" }) => pc[n] = "parked"

\* The second test was created and runs a sub-test while the first, which
\* called Parallel(), waits for Run to return: the second is the only node
\* held by the loop.
C29_Witness ==
    /\ << 1 >> \in par
    /\ pc[<< 1 >>] = "parked"
    /\ Children(<< 2 >>) # {}
    /\ << 2 >> \in Nodes
    /\ Held = { << 2 >> }
    /\ pc[Root] = "wait"

-----------------------------------------------------------------------------
\* the panics recorded in a teardown hook
TearDownPanics ==
    { f \in faultAt :
        f[3] = "panic" /\
        f[2] \in { "AfterTest", "TearDownTest", "TearDownSubTest", "TearDownSuite" } }
\* the nodes above n
Enclosing(n) == Ancestors(n) \ { n }

\* C30: a panic in AfterTest, TearDownTest, TearDownSubTest or TearDownSuite
\* is caught (it marks the node failed and does not reach the engine), and
\* the cleanups registered before the one that panicked are not lost: after
\* a panic in AfterTest the test's TearDownTest is still registered or has
\* run, and has run once, with the end of the test recorded in the
\* statistics as failed, by the time the test is complete; after a panic in
\* TearDownTest or TearDownSubTest the teardown of every enclosing node has
\* run once by the time that node is complete (TearDownSuite by the end of
\* the run), and the end of the test is recorded; after a panic in
\* TearDownSuite HandleStats has been called once, with the statistics, by
\* the end of the run.
C30_TearDownPanicContained ==
    \A f \in TearDownPanics :
        LET n == f[1] IN
        /\ ~escaped
        /\ n \in failed
        /\ (f[2] = "AfterTest" /\ "TearDownTest" \in has) =>
              /\ Registered(n, "TearDownTest") \/ Ran(n, "TearDownTest")
              /\ pc[n] = "done" => Count(n, "TearDownTest") = 1
        /\ (f[2] \in { "AfterTest", "TearDownTest" } /\ stats.on) =>
              /\ Registered(n, "statsEnd") \/ EndRecorded(n)
              /\ pc[n] = "done" =>
                    EndRecorded(n) /\ ~stats.TestStats[TestName(n)].Passed
        /\ f[2] \in { "TearDownTest", "TearDownSubTest" } =>
              \A a \in Enclosing(n) :
                 (TearDownOf(a) \in has /\ pc[a] = "done")
                    => Count(a, TearDownOf(a)) = 1
        /\ (f[2] = "TearDownSuite" /\ "HandleStats" \in has) =>
              /\ Registered(Root, "HandleStats") \/ Ran(Root, "HandleStats")
              /\ SuiteDone =>
                    Count(Root, "HandleStats") = 1 /\ Len(delivered) = 1

\* TearDownSubTest panicked on a sub-test of a suite with every hook; the
\* TearDownTest of its test, TearDownSuite and HandleStats have run all the
\* same, and the run is over.
C30_Witness ==
    /\ has = AllHooks
    /\ SuiteDone
    /\ \E f \in TearDownPanics :
         /\ f[2] = "TearDownSubTest"
         /\ Ran(<< f[1][1] >>, "TearDownTest")
         /\ EndRecorded(<< f[1][1] >>)
    /\ Ran(Root, "TearDownSuite")
    /\ Len(delivered) = 1

-----------------------------------------------------------------------------
\* SetupSuite panicked
SetupSuitePanicked == << Root, "SetupSuite", "panic" >> \in faultAt

\* C31: after a panic in SetupSuite the suite node is the only node, so no
\* test hook and no body runs; the panic is caught and the run is marked
\* failed; the only calls made after it are TearDownSuite and HandleStats,
\* each at most once; and by the end of the run TearDownSuite (if the suite
\* has it) has run exactly once and HandleStats (if the suite has it) was
\* given the statistics exactly once, with no test in them.
C31_SetupSuitePanic ==
    SetupSuitePanicked =>
        /\ Nodes = { Root }
        /\ next = 1
        /\ ~escaped
        /\ Root \in failed
        /\ calls[Root][1] = "SetupSuite"
        /\ \A i \in 2..Len(calls[Root]) :
             calls[Root][i] \in { "TearDownSuite", "HandleStats" }
        /\ Count(Root, "TearDownSuite") <= 1
        /\ Count(Root, "HandleStats") <= 1
        /\ SuiteDone =>
              /\ "TearDownSuite" \in has => Count(Root, "TearDownSuite") = 1
              /\ "HandleStats" \in has =>
                    /\ Count(Root, "HandleStats") = 1
                    /\ Len(delivered) = 1
                    /\ DOMAIN delivered[1].TestStats = {}

\* SetupSuite panicked in a suite with every hook; the run is over, after
\* TearDownSuite and then HandleStats, which got statistics without a test.
C31_Witness ==
    /\ SetupSuitePanicked
    /\ has = AllHooks
    /\ SuiteDone
    /\ calls[Root] = << "SetupSuite", "TearDownSuite", "HandleStats" >>
    /\ Len(delivered) = 1
    /\ DOMAIN delivered[1].TestStats = {}
    /\ Root \in failed

-----------------------------------------------------------------------------
\* the tests whose SetupTest panicked
SetupTestPanicked ==
    { n \in Nodes : IsTest(n) /\ << n, "SetupTest", "panic" >> \in faultAt }

\* C32: on a test whose SetupTest panicked, BeforeTest, the body and
\* AfterTest are never called, the AfterTest cleanup is not registered and
\* no sub-test is started; the test is marked failed; the only call after
\* SetupTest is TearDownTest, at most once, and exactly once by the time the
\* test is complete (if the suite has it).
C32_SetupTestPanic ==
    \A n \in SetupTestPanicked :
        /\ ~Ran(n, "BeforeTest")
        /\ ~Ran(n, "Body")
        /\ ~Ran(n, "AfterTest")
        /\ ~Registered(n, "AfterTest")
        /\ Children(n) = {}
        /\ n \in failed
        /\ ~escaped
        /\ IsPrefix(calls[n], << "SetupTest", "TearDownTest" >>)
        /\ (pc[n] = "done" /\ "TearDownTest" \in has)
              => calls[n] = << "SetupTest", "TearDownTest" >>

\* SetupTest panicked on a test of a suite with every hook; the test is
\* complete after its TearDownTest, and the run is over.
C32_Witness ==
    /\ has = AllHooks
    /\ SuiteDone
    /\ \E n \in SetupTestPanicked :
         /\ pc[n] = "done"
         /\ calls[n] = << "SetupTest", "TearDownTest" >>

-----------------------------------------------------------------------------
\* the hooks of the level of node n
LevelHooks(n) ==
    IF n = Root THEN { "SetupSuite", "TearDownSuite", "HandleStats" }
    ELSE IF IsTest(n) THEN { "SetupTest", "BeforeTest", "AfterTest", "TearDownTest" }
    ELSE { "SetupSubTest", "TearDownSubTest" }

\* C33: every call made on a node is a hook of the node's level that the
\* suite has (SetupSuite, TearDownSuite and HandleStats on the suite node,
\* SetupTest, BeforeTest, AfterTest and TearDownTest on a test node,
\* SetupSubTest and TearDownSubTest on a sub-test node) or, below the suite
\* node, the body; and no hook and no body is called twice on the same node.
C33_HooksBoundToLevel ==
    \A n \in Nodes :
        /\ \A i \in 1..Len(calls[n]) :
             \/ calls[n][i] \in LevelHooks(n) \cap has
             \/ calls[n][i] = "Body" /\ n # Root
        /\ \A h \in AllHooks \cup { "Body" } : Count(n, h) <= 1

\* A run of a suite with every hook is over in which all four test hooks
\* ran on a test, both sub-test hooks on a sub-test of it and on a sub-test
\* of that one, and the three suite hooks on the suite node.
C33_Witness ==
    /\ has = AllHooks
    /\ SuiteDone
    /\ Len(calls[Root]) = 3
    /\ \E n \in SubTests :
         /\ Len(n) = 3
         /\ Len(calls[n]) = 3
         /\ Len(calls[Parent(n)]) = 3
         /\ Len(calls[<< n[1] >>]) = 5

-----------------------------------------------------------------------------
\* the private data reached from node n through Parent()
ParentData(n) == PerTestDataOf(theap, ctx[n].parent)

\* C34: a test or sub-test node whose own setup hook has not run holds zero
\* private data, whatever the node above it has written; the private data
\* of the node above never holds what the node wrote, nor the other way
\* round; no hook or body of a node reads from its private data what the
\* node above or the suite node wrote; and what the node above wrote (for a
\* test: what SetupSuite wrote on the suite node) is what the node reaches
\* through Parent().
C34_PrivateDataNotInherited ==
    \A n \in Nodes \ { Root } :
        /\ ~Ran(n, SetupOf(n)) => PrivateData(n) = ZeroT.PerTestData
        /\ PrivateData(Parent(n)) # WrittenT(n).PerTestData
        /\ PrivateData(n) # WrittenT(Parent(n)).PerTestData
        /\ PrivateData(n) # WrittenT(Root).PerTestData
        /\ \A r \in reads[n] :
             /\ r.PerTestData # WrittenT(Parent(n)).PerTestData
             /\ r.PerTestData # WrittenT(Root).PerTestData
        /\ ParentData(n) = PrivateData(Parent(n))

\* A sub-test has just been created and holds zero private data, while its
\* test holds what SetupTest wrote and the suite node what SetupSuite wrote;
\* a sub-test created before it holds what its own SetupSubTest wrote.
C34_Witness ==
    \E n \in SubTests :
        /\ pc[n] = "begin"
        /\ PrivateData(n) = ZeroT.PerTestData
        /\ PrivateData(Parent(n)) = WrittenT(Parent(n)).PerTestData
        /\ ParentData(n) = WrittenT(Parent(n)).PerTestData
        /\ PrivateData(Root) = WrittenT(Root).PerTestData
        /\ ParentData(Parent(n)) = WrittenT(Root).PerTestData
        /\ \E m \in SubTests :
             m # n /\ PrivateData(m) = WrittenT(m).PerTestData

-----------------------------------------------------------------------------
\* test n is about to call stats.start
StartEnabled(n) == IsTest(n) /\ stats.on /\ pc[n] = "begin"
\* the engine is about to run the statistics cleanup of test n: stats.end
EndEnabled(n) ==
    /\ IsTest(n)
    /\ pc[n] = "waitsubs"
    /\ SubTestsDone(n)
    /\ cleanups[n] # << >>
    /\ NextCleanup(cleanups[n]) = "statsEnd"
\* the engine is about to run the HandleStats cleanup
HandleStatsEnabled ==
    /\ pc[Root] = "waitsubs"
    /\ SubTestsDone(Root)
    /\ cleanups[Root] # << >>
    /\ NextCleanup(cleanups[Root]) = "HandleStats"

\* C35: whenever a test is about to call stats.start, no other test is
\* about to call stats.start and none is about to call stats.end: Run is
\* inside the T.Run call of that test, and every other test node is complete
\* or waits in Parallel(); and whenever HandleStats is about to be called or
\* has been called, the end of every test is recorded and no stats.end is
\* pending.
C35_StatsStartSequential ==
    /\ \A n \in Nodes : StartEnabled(n) =>
         /\ pc[Root] = "wait"
         /\ \A m \in Nodes \ { n } :
              /\ ~StartEnabled(m)
              /\ ~EndEnabled(m)
              /\ IsTest(m) => pc[m] \in { "done", "parked" }
    /\ (HandleStatsEnabled \/ Ran(Root, "HandleStats")) =>
         \A m \in Nodes : IsTest(m) =>
              /\ EndRecorded(m)
              /\ ~EndEnabled(m)
              /\ ~Registered(m, "statsEnd")

\* The second test is about to call stats.start while the first, which
\* called Parallel(), waits with its statistics cleanup registered.
C35_Witness ==
    /\ << 2 >> \in Nodes
    /\ StartEnabled(<< 2 >>)
    /\ << 1 >> \in par
    /\ pc[<< 1 >>] = "parked"
    /\ Registered(<< 1 >>, "statsEnd")
    /\ ~EndRecorded(<< 1 >>)

-----------------------------------------------------------------------------
\* the run has come to its end: the process has exited, or every node is
\* complete with no cleanup left
Terminated ==
    \/ exited
    \/ \A n \in Nodes : pc[n] = "done" /\ cleanups[n] = << >>
\* every test and sub-test node there is has had its teardown hook invoked,
\* if the suite has that hook
AllTornDown ==
    \A n \in Nodes \ { Root } :
        (pc[n] # "begin" /\ TearDownOf(n) \in has) => Ran(n, TearDownOf(n))
\* the suite-level teardown and the statistics delivery have been invoked
SuiteTornDown ==
    /\ "TearDownSuite" \in has => Ran(Root, "TearDownSuite")
    /\ "HandleStats" \in has => Ran(Root, "HandleStats") /\ Len(delivered) = 1

\* C36: under fair scheduling every run of the suite comes to an end, and
\* from some point on every test and sub-test node that was started has had
\* its teardown hook invoked and, when the run set is not empty, TearDownSuite
\* and HandleStats (where declared) have been invoked.
C36_Termination ==
    <>[](/\ Terminated
         /\ AllTornDown
         /\ RunSetNonEmpty => SuiteTornDown)

\* A finished run with two parallel tests, one with a sub-test, a panic in
\* it, and every teardown invoked.
C36_Witness ==
    /\ Terminated
    /\ ~exited
    /\ has = AllHooks
    /\ { << 1 >>, << 2 >> } \subseteq par
    /\ SubTests # {}
    /\ faults > 0
    /\ AllTornDown
    /\ SuiteTornDown

-----------------------------------------------------------------------------
\* C37: in the variant Run[D] / T[D], HandleStats is invoked only once every
\* test and sub-test node is complete, and the end and outcome of a test are
\* recorded only once the function of the test has been left and every node
\* below the test is complete, also when tests or sub-tests called
\* Parallel().
C37_StatsAfterDescendantsD ==
    /\ Ran(Root, "HandleStats") =>
         \A n \in Nodes \ { Root } : pc[n] = "done"
    /\ \A n \in Nodes : (IsTest(n) /\ EndRecorded(n)) =>
         /\ FunctionLeft(n)
         /\ \A m \in Descendants(n) : pc[m] = "done"

\* C38: in the variant Run[D] / T[D], once a node whose setup hook
\* (SetupSuite, SetupTest, SetupSubTest) panicked is complete, the matching
\* teardown hook of that node, if the suite has it, has been invoked.
C38_SetupPanicTornDownD ==
    \A n \in Nodes :
        (/\ << n, SetupOf(n), "panic" >> \in faultAt
         /\ TearDownOf(n) \in has
         /\ pc[n] = "done")
        => Ran(n, TearDownOf(n))

-----------------------------------------------------------------------------
\* the last call was a setField
SetFieldCalled == lastSet.op = "setField"
\* the field named in the last call exists in the struct and can be set
Settable ==
    /\ lastSet.arg[1] \in DOMAIN lastSet.before.type
    /\ lastSet.before.type[lastSet.arg[1]].exported
\* the last call set the named field to the value and nothing else
FieldSet ==
    /\ lastSet.arg[1] \in DOMAIN lastSet.before.type
    /\ ctx[Root] = [lastSet.before EXCEPT !.fields[lastSet.arg[1]] = lastSet.arg[2]]
\* what the last call has to end with
SetFieldContract ==
    /\ ~lastSet.panic
    /\ \/ lastSet.err = NoError /\ FieldSet
       \/ lastSet.err # NoError /\ ctx[Root] = lastSet.before
    /\ lastSet.arg[1] \notin DOMAIN lastSet.before.type =>
         lastSet.err = << "field ", lastSet.arg[1], " does not exist" >>
    /\ (Settable /\ lastSet.arg[2].type # lastSet.before.type[lastSet.arg[1]].type) =>
         /\ lastSet.err # NoError
         /\ lastSet.err[3] = " is not assignable to field "

\* C39: every call of setField either sets the named field to the value and
\* returns no error, or returns an error and leaves every field of the struct
\* as it was; a field name the struct does not have yields "field <name> does
\* not exist", and a value whose type is not assignable to the type of the
\* field yields the not-assignable error.
C39_SetFieldTotal == SetFieldCalled => SetFieldContract

\* the same for the calls made with a value that has a type (every value but
\* the nil interface)
SetFieldTyped == (SetFieldCalled /\ lastSet.arg[2] # NilValue) => SetFieldContract

====
